---- MODULE Spec2Model ----
(***************************************************************************)
(* A model of the resource dispatch pipeline of django-tastypie            *)
(* (src/tastypie/resources.py, authorization.py, exceptions.py,            *)
(* response.py, parsers.py, request.py, multipart.py):                     *)
(*   - the dispatch cycle of one request after another against a store,    *)
(*   - the composition of authorization policies (is_authorized and        *)
(*     apply_authorization_limits),                                        *)
(*   - the filter whitelist and the sorting of ModelResource               *)
(*     (build_filters, check_filtering, apply_sorting),                    *)
(*   - the handlers over a store whose writes may fail, and get_multiple,  *)
(*   - the hydrate and dehydrate cycle of a bundle,                        *)
(*   - the translation of exceptions into error responses,                 *)
(*   - deserialize over the configured parsers,                            *)
(*   - resource classes, their instances and the copies of their fields,   *)
(*   - the header mapping of a Response,                                   *)
(*   - the object cache in front of obj_get,                               *)
(*   - two resources sharing one authorization policy instance,            *)
(*   - get_list through the paginator, and the nested related route.       *)
(***************************************************************************)
EXTENDS Integers, Sequences, FiniteSets, TLC

VARIABLES
    meta,          \* the resolved ResourceOptions of the resource class
    settings,      \* django.conf.settings: DEBUG, TASTYPIE_FULL_DEBUG
    store,         \* the rows of the storage collaborator
    pc,            \* the position of the request within wrap_view/dispatch
    request,       \* the request being handled
    auth_result,   \* what the authentication policy returned for it
    passed,        \* the dispatch steps this request completed, in order
    raised,        \* the exception travelling up to wrap_view, if any
    response,      \* what the client receives
    accessed,      \* accesses of this request recorded by log_throttled_access
    az,            \* one is_authorized call: policies' votes and its outcome
    lim,           \* one apply_authorization_limits call and its result
    flt,           \* one obj_get_list call: the filters and what reached storage
    hc,            \* one handler call on a store whose save() and delete() may fail
    hy,            \* one bundle on its way through the hydrate cycle
    ds,            \* one deserialize call: the request data and what decoded it
    ob,            \* the resource classes, their instances and the field objects
    hd,            \* one Response and the header mapping it carries
    ch,            \* the object cache and the get_detail requests against it
    cc,            \* two resources sharing one authorization policy instance
    pg,            \* one get_list call through the paginator
    rel            \* one request on the nested related route

vars == <<meta, settings, store, pc, request, auth_result, passed, raised,
          response, accessed, az, lim, flt, hc, hy, ds, ob, hd, ch, cc, pg, rel>>

(***************************************************************************)
(* Bounds of the model.                                                    *)
(***************************************************************************)
MaxPk == 2
MaxBatch == 2
MaxPolicies == 2
MaxFilters == 2
MaxParsers == 2

Users == {"alice", "bob"}

\* A row of the store: a primary key and the value of its owner field.
Objects == [pk : 1..MaxPk, owner : Users]

Pks(objs) == {o.pk : o \in objs}

\* Sets of rows in which the primary key is unique.
Tables == {t \in SUBSET Objects : \A a, b \in t : a.pk = b.pk => a = b}

(***************************************************************************)
(* HTTP status codes (httplib).                                            *)
(***************************************************************************)
OK == 200
CREATED == 201
ACCEPTED == 202
NO_CONTENT == 204
MULTIPLE_CHOICES == 300
BAD_REQUEST == 400
UNAUTHORIZED == 401
FORBIDDEN == 403
NOT_FOUND == 404
METHOD_NOT_ALLOWED == 405
NOT_ACCEPTABLE == 406
INTERNAL_SERVER_ERROR == 500
NOT_IMPLEMENTED == 501

(***************************************************************************)
(* Responses and exceptions.                                               *)
(***************************************************************************)
\* The body of a response that has none.
NoContent == [code |-> 0, message |-> "none", trace |-> FALSE]

\* A response: its status, the place that built it, its headers (name and
\* value) and its body.
Resp(status, origin) ==
    [status |-> status, origin |-> origin, headers |-> {}, content |-> NoContent]
NoResp == Resp(0, "none")

\* A raised exception: its class, its status_code attribute, the
\* ``response`` attribute it carries (NoResp when it has none) and its
\* ``headers`` attribute.
Exc(type, status) == [type |-> type, status |-> status, resp |-> NoResp, headers |-> {}]
NoExc == Exc("none", 0)

\* exceptions.py: ImmediateHttpResponse keeps TastypieError's status_code and
\* carries the response to emit.
ImmediateHttpResponse(resp) ==
    [type |-> "ImmediateHttpResponse", status |-> INTERNAL_SERVER_ERROR, resp |-> resp,
     headers |-> {}]

\* exceptions.py: the classes derived from TastypieError.
TastypieErrors ==
    {"TastypieError", "Unauthorized", "PermissionDenied", "MethodNotAllowed",
     "HydrationError", "NotRegistered", "NotFound", "ApiFieldError",
     "UnsupportedFormat", "BadRequest", "BlueberryFillingFound",
     "InvalidFilterError", "InvalidSortError", "ImmediateHttpResponse"}

\* exceptions.py: the classes derived from BadRequest (BadRequest included).
BadRequests == {"BadRequest", "InvalidFilterError"}

\* exceptions.py: the class each exception class is derived from.
BaseOf(type) ==
    IF type = "InvalidFilterError" THEN "BadRequest"
    ELSE IF type \in TastypieErrors \ {"TastypieError"} THEN "TastypieError"
    ELSE "Exception"

\* isinstance(e, base) for an exception e of class type.
RECURSIVE IsSubclass(_, _)
IsSubclass(type, base) ==
    \/ type = base
    \/ type # "Exception" /\ IsSubclass(BaseOf(type), base)

\* exceptions.py: the status_code attribute of a class derived from
\* TastypieError, its own or the one it inherits.
RECURSIVE status_code(_)
status_code(type) ==
    CASE type = "TastypieError" -> INTERNAL_SERVER_ERROR
      [] type = "Unauthorized" -> UNAUTHORIZED
      [] type = "PermissionDenied" -> FORBIDDEN
      [] type = "MethodNotAllowed" -> METHOD_NOT_ALLOWED
      [] type = "NotFound" -> NOT_FOUND
      [] type = "UnsupportedFormat" -> NOT_ACCEPTABLE
      [] type = "BadRequest" -> BAD_REQUEST
      [] OTHER -> status_code(BaseOf(type))

\* An exception of the class raised with a message only: a class derived from
\* TastypieError has its class's status_code.
Raised(type) ==
    IF IsSubclass(type, "TastypieError") THEN Exc(type, status_code(type))
    ELSE Exc(type, INTERNAL_SERVER_ERROR)

(***************************************************************************)
(* Authorization policies (authorization.py).                              *)
(***************************************************************************)
\* What a policy's is_authorized may return: True, False, None (defer to the
\* next policy) or a pre-built HttpResponse.
Votes == {"True", "False", "None", "Response"}

\* What a policy's get_limits may return: True, False, None, a Q object (the
\* rows whose owner is in ``owners``) or, for OwnerDjangoAuthorization, the
\* tuple (None, Q).
Limit(kind, owners) == [kind |-> kind, owners |-> owners]
LNone == Limit("None", {})
LTrue == Limit("True", {})
LFalse == Limit("False", {})
Q(owners) == Limit("Q", owners)
LTuple(owners) == Limit("Tuple", owners)
Limits == {LNone, LTrue, LFalse} \cup {Q({u}) : u \in Users}

\* A policy object.  kind names the class; a "Custom" policy is a user-written
\* class whose is_authorized returns ``vote`` and whose get_limits returns
\* ``limit``; "Base" is the Authorization base class, which has no get_limits.
Policy(kind, vote, limit) == [kind |-> kind, vote |-> vote, limit |-> limit]
ReadOnlyAuthorization == Policy("ReadOnly", "None", LNone)
OpenAuthorization == Policy("Open", "True", LTrue)
OwnerDjangoAuthorization == Policy("Owner", "None", LNone)
Authorization == Policy("Base", "True", LNone)
Custom(vote, limit) == Policy("Custom", vote, limit)

NoUser == "anonymous"
NoObject == [pk |-> 0, owner |-> NoUser]

\* Authorization.is_authorized and its overrides: the vote of one policy on a
\* request (its method, its user or NoUser when the request has no ``user``)
\* and an optional object.
PolicyVote(p, method, user, object) ==
    CASE p.kind = "ReadOnly" -> IF method = "GET" THEN "True" ELSE "None"
      [] p.kind = "Open" -> "True"
      [] p.kind = "Base" -> "True"
      [] p.kind = "Owner" ->
            IF object = NoObject THEN "None"
            ELSE IF method = "GET" THEN "None"
            ELSE IF user = NoUser THEN "None"
            ELSE IF user = object.owner THEN "True" ELSE "False"
      [] OTHER -> p.vote

\* hasattr(authorizer, 'get_limits')
HasGetLimits(p) == p.kind # "Base"

\* get_limits of each policy class.
get_limits(p, method, user) ==
    CASE p.kind = "ReadOnly" ->
            IF PolicyVote(p, method, user, NoObject) = "True" THEN LTrue ELSE LFalse
      [] p.kind = "Open" -> LTrue
      [] p.kind = "Owner" ->
            IF method = "GET" THEN LNone
            ELSE IF user = NoUser THEN LNone
            ELSE LTuple({user})
      [] OTHER -> p.limit

(***************************************************************************)
(* Resource.is_authorized (resources.py).                                  *)
(***************************************************************************)
PermissionDenied == Exc("PermissionDenied", FORBIDDEN)

\* The loop over the authorizers, from position i with the votes of the
\* policies: the exception raised, or NoExc when the request is authorized.
RECURSIVE AuthorizeFrom(_, _)
AuthorizeFrom(votes, i) ==
    IF i > Len(votes) THEN PermissionDenied
    ELSE IF votes[i] = "Response" THEN PermissionDenied
    ELSE IF votes[i] # "None"
         THEN (IF votes[i] = "True" THEN NoExc ELSE PermissionDenied)
    ELSE AuthorizeFrom(votes, i + 1)

is_authorized_mutant_last(votes) ==
    LET decisive == {i \in 1..Len(votes) : votes[i] # "None"}
        last == CHOOSE i \in decisive : \A j \in decisive : j <= i
    IN  IF decisive = {} THEN PermissionDenied
        ELSE IF votes[last] = "True" THEN NoExc ELSE PermissionDenied

is_authorized(votes) == AuthorizeFrom(votes, 1)

\* The votes of a list of policies on one request and object.
VotesOf(authorizers, method, user, object) ==
    [i \in 1..Len(authorizers) |-> PolicyVote(authorizers[i], method, user, object)]

(***************************************************************************)
(* Resource.apply_authorization_limits (resources.py).                     *)
(***************************************************************************)
\* Python truth value of a limit: None and False are false, True, a Q with
\* children and a tuple are true.
Truthy(x) == x.kind \in {"True", "Q", "Tuple"}

q_and(x, y) ==
    IF x.kind = "Q" /\ y.kind = "Q" THEN Q(x.owners \cap y.owners)
    ELSE IF Truthy(x) THEN x ELSE y

q_or(x, y) ==
    IF x.kind = "Q" /\ y.kind = "Q" THEN Q(x.owners \cup y.owners)
    ELSE IF Truthy(x) THEN x ELSE y

\* The pair (_and, _or) after the policies from position i on.  (A value
\* bound with ``x \in {e}`` is evaluated once, where a LET definition is
\* evaluated at each use.)
RECURSIVE Accumulate(_, _, _, _, _)
Accumulate(authorizers, i, method, user, acc) ==
    IF i > Len(authorizers) THEN acc
    ELSE IF ~HasGetLimits(authorizers[i])
         THEN Accumulate(authorizers, i + 1, method, user, acc)
    ELSE CHOOSE result \in
            {Accumulate(authorizers, i + 1, method, user, next) :
                next \in {<<q_and(acc[1], auth_and_or[1]), q_or(acc[2], auth_and_or[2])>> :
                    \* ``hasattr(limits, '_iter_')`` is false of every value,
                    \* so limits = (limits, limits)
                    auth_and_or \in {<<limits, limits>> :
                        limits \in {get_limits(authorizers[i], method, user)}}}} : TRUE

\* The final restriction q.
Restriction(authorizers, method, user) ==
    CHOOSE q \in {q_and(acc[1], acc[2]) :
                    acc \in {Accumulate(authorizers, 1, method, user, <<LNone, LNone>>)}} : TRUE

\* What a call on the object list returns: a collection, a single object
\* (QuerySet.get) or an exception.
AsList(objs) == [kind |-> "list", objs |-> objs, exc |-> "none"]
AsObject(o) == [kind |-> "object", objs |-> {o}, exc |-> "none"]
Raises(type) == [kind |-> "raise", objs |-> {}, exc |-> type]

\* QuerySet.get(q) of the storage collaborator: the single row matching q.
QuerySetGet(object_list, q) ==
    IF q.kind # "Q" THEN Raises("Exception")
    ELSE CHOOSE result \in
            {IF hit = {} THEN Raises("DoesNotExist")
             ELSE IF Cardinality(hit) > 1 THEN Raises("MultipleObjectsReturned")
             ELSE AsObject(CHOOSE o \in hit : TRUE) :
                hit \in {{o \in object_list : o.owner \in q.owners}}} : TRUE

\* The branches of apply_authorization_limits on the final restriction q.
LimitBy(q, object_list) ==
    IF q.kind = "False" THEN AsList({})
    ELSE IF q.kind \in {"True", "None"} THEN AsList(object_list)
    ELSE QuerySetGet(object_list, q)

apply_authorization_limits(authorizers, method, user, object_list) ==
    CHOOSE result \in {LimitBy(q, object_list) :
                        q \in {Restriction(authorizers, method, user)}} : TRUE

(***************************************************************************)
(* ResourceOptions (resources.py).                                         *)
(***************************************************************************)
\* An option the inner ``class Meta`` does not set.
Unset == {"<unset>"}

DefaultAllowedMethods == {"get", "post", "put", "delete"}

\* ResourceOptions.__new__: the overrides of ``class Meta`` merged onto the
\* defaults.  ``authorization`` is kept as the tuple as_tuple makes of it.
ResourceOptions(overrides) ==
    LET allowed_methods ==
            IF overrides.allowed_methods = Unset THEN DefaultAllowedMethods
            ELSE overrides.allowed_methods
    IN  [list_allowed_methods |->
            IF overrides.list_allowed_methods = Unset THEN allowed_methods
            ELSE overrides.list_allowed_methods,
         detail_allowed_methods |->
            IF overrides.detail_allowed_methods = Unset THEN allowed_methods
            ELSE overrides.detail_allowed_methods,
         authorization |-> overrides.authorization,
         always_return_data |-> overrides.always_return_data]

\* The ``class Meta`` declarations the model draws from.
MetaOverrides ==
    [allowed_methods : {Unset, {"get"}, {"get", "post", "put", "delete", "patch", "options"}},
     list_allowed_methods : {Unset, {"get", "post"}},
     detail_allowed_methods : {Unset},
     authorization : {<<ReadOnlyAuthorization>>, <<OpenAuthorization>>},
     always_return_data : {FALSE}]

\* getattr(self._meta, "%s_allowed_methods" % request_type, None)
AllowedMethods(m, request_type) ==
    IF request_type = "list" THEN m.list_allowed_methods ELSE m.detail_allowed_methods

(***************************************************************************)
(* Requests.                                                               *)
(***************************************************************************)
HttpMethods == {"GET", "POST", "PUT", "DELETE", "OPTIONS", "PATCH"}

\* request.method.lower()
Lower(method) ==
    CASE method = "GET" -> "get"
      [] method = "POST" -> "post"
      [] method = "PUT" -> "put"
      [] method = "DELETE" -> "delete"
      [] method = "OPTIONS" -> "options"
      [] method = "PATCH" -> "patch"
      [] OTHER -> method

\* The users the requests of the dispatch cycle come from.
Callers == {"alice"}

\* The keyword arguments the URL pattern captures for a handler: none for
\* the list endpoint, the primary key for the detail endpoint, or, with an
\* overridden URL, a field that need not be unique (here the owner).
KwArgs(field, pk, owner) == [field |-> field, pk |-> pk, owner |-> owner]
NoKwargs == KwArgs("none", 0, NoUser)
ByPk(pk) == KwArgs("pk", pk, NoUser)
ByOwner(owner) == KwArgs("owner", 0, owner)

\* get_object_list(request).filter(**kwargs)
Filter(rows, kwargs) ==
    CASE kwargs.field = "pk" -> {o \in rows : o.pk = kwargs.pk}
      [] kwargs.field = "owner" -> {o \in rows : o.owner = kwargs.owner}
      [] OTHER -> rows

\* A request routed to dispatch_list or to dispatch_detail.
Requests ==
    [method : HttpMethods, type : {"list"}, kwargs : {NoKwargs}, user : Callers]
    \cup [method : HttpMethods, type : {"detail"}, kwargs : {ByPk(pk) : pk \in 1..MaxPk},
          user : Callers]
NoRequest == [method |-> "none", type |-> "none", kwargs |-> NoKwargs, user |-> NoUser]

\* The verb handlers Resource defines for the list and detail scopes, as
\* <<method, request_type>> for the name "%s_%s" % (method, request_type).
Handlers ==
    {"get", "post", "put", "delete"} \X {"list", "detail"}

(***************************************************************************)
(* The checks of Resource.dispatch (resources.py).                         *)
(***************************************************************************)
\* The result of a check: the exception it raised (NoExc when it passed) and
\* the value it returned.
Passed(value) == [exc |-> NoExc, value |-> value]
Failed(exc) == [exc |-> exc, value |-> "none"]

\* str.upper of a method name.
Upper(method) ==
    CASE method = "get" -> "GET"
      [] method = "post" -> "POST"
      [] method = "put" -> "PUT"
      [] method = "delete" -> "DELETE"
      [] method = "options" -> "OPTIONS"
      [] method = "patch" -> "PATCH"
      [] OTHER -> method

\* exceptions.py: MethodNotAllowed(allows) puts the allowed methods in its
\* Allow header.
MethodNotAllowed(allows) ==
    [Exc("MethodNotAllowed", METHOD_NOT_ALLOWED) EXCEPT
        !.headers = {<<"Allow", {Upper(a) : a \in allows}>>}]

method_check_mutant_handler(method, allowed) ==
    IF Lower(method) \in allowed \/ \E t \in {"list", "detail"} : <<Lower(method), t>> \in Handlers
    THEN Passed(Lower(method))
    ELSE Failed(Exc("TastypieError", BAD_REQUEST))

method_check(method, allowed) ==
    LET request_method == Lower(method)
    IN  IF request_method = "options"
        THEN Failed(MethodNotAllowed(allowed))
        ELSE IF request_method \notin allowed
        THEN Failed(Exc("TastypieError", BAD_REQUEST))
        ELSE Passed(request_method)

\* What the authentication policy's is_authenticated may return: True, another
\* true value (a user object, 1), False, None or a pre-built HttpResponse.
AuthResults == {"True", "Truthy", "False", "None", "Response"}
NoAuthResult == "none"

\* The response a policy hands back instead of a truth value.
PolicyResponse == Resp(UNAUTHORIZED, "authentication policy")
HttpUnauthorized == Resp(UNAUTHORIZED, "HttpUnauthorized")
HttpForbidden == Resp(FORBIDDEN, "HttpForbidden")

is_authenticated_mutant_truthy(result) ==
    IF result = "Response" THEN Failed(ImmediateHttpResponse(PolicyResponse))
    ELSE IF result \notin {"True", "Truthy"} THEN Failed(ImmediateHttpResponse(HttpUnauthorized))
    ELSE Passed("none")

is_authenticated_mutant_skip(result) ==
    Passed("none")

is_authenticated(result) ==
    IF result = "Response" THEN Failed(ImmediateHttpResponse(PolicyResponse))
    ELSE IF result # "True" THEN Failed(ImmediateHttpResponse(HttpUnauthorized))
    ELSE Passed("none")

throttle_check(should_be_throttled) ==
    IF should_be_throttled THEN Failed(ImmediateHttpResponse(HttpForbidden))
    ELSE Passed("none")

(***************************************************************************)
(* Storage operations of ModelResource (resources.py).                     *)
(***************************************************************************)
\* One deserialized object: the value for its owner field, whether the
\* validation policy accepts it, whether the storage collaborator saves the
\* object made from it (``save()`` returns) and whether it deletes that
\* object (``delete()`` returns).
AnyData == [owner : Users, valid : BOOLEAN, saves : BOOLEAN, deletes : BOOLEAN]

\* The objects of the dispatch cycle: the storage collaborator works.
Data == {d \in AnyData : d.saves /\ d.deletes}

\* A deserialized request body: whether a configured parser decoded it,
\* whether it has the 'objects' key, and the objects it carries (a detail
\* body carries one).
BodiesOf(data) ==
    {b \in [parses : BOOLEAN, has_objects : BOOLEAN, objects : UNION {[1..n -> data] : n \in 1..MaxBatch}] :
        ~b.parses => (~b.has_objects /\ Len(b.objects) = 1)}

Bodies == BodiesOf(Data)

\* The key the storage collaborator gives a row saved without one.
FreshPk(rows) ==
    CHOOSE k \in 1..(Cardinality(rows) + 1) : k \notin Pks(rows) /\ \A j \in 1..(k - 1) : j \in Pks(rows)

\* Model.save(): insert the row, or overwrite the row that has its key.
Save(rows, obj) == {o \in rows : o.pk # obj.pk} \cup {obj}

\* ModelResource.obj_get: the single row matching pk within the
\* authorization limits.
ObjGetFrom(object_list) ==
    IF object_list.kind = "raise" THEN object_list
    \* len() of a model instance
    ELSE IF object_list.kind = "object" THEN Raises("TypeError")
    ELSE IF Cardinality(object_list.objs) <= 0 THEN Raises("DoesNotExist")
    ELSE IF Cardinality(object_list.objs) > 1 THEN Raises("MultipleObjectsReturned")
    ELSE AsObject(CHOOSE o \in object_list.objs : TRUE)

obj_get(authorizers, req, rows, kwargs) ==
    CHOOSE result \in
        {ObjGetFrom(object_list) :
            object_list \in {apply_authorization_limits(authorizers, req.method, req.user,
                                                        Filter(rows, kwargs))}} : TRUE

\* The outcome of an operation on the store: the rows afterwards, the response
\* returned (NoResp when none) and the exception raised (NoExc when none).
Outcome(rows, ret, exc) == [store |-> rows, ret |-> ret, exc |-> exc]

\* The storage collaborator's save() or delete() raised.
DatabaseError == Exc("DatabaseError", INTERNAL_SERVER_ERROR)

\* The object obj_create builds: with the key of the URL when the kwargs
\* give one, hydrated from the data.
Created(rows, data, kwargs) ==
    [pk |-> IF kwargs.field = "pk" THEN kwargs.pk ELSE FreshPk(rows), owner |-> data.owner]

\* ModelResource.obj_create: the new object saved, or the exception of
\* save().  No authorization policy is consulted.
obj_create(rows, data, kwargs) ==
    IF ~data.saves THEN Outcome(rows, NoResp, DatabaseError)
    ELSE Outcome(Save(rows, Created(rows, data, kwargs)), NoResp, NoExc)

\* obj_update: bundle.data.update(kwargs)
DataUpdate(data, kwargs) ==
    IF kwargs.field = "owner" THEN [data EXCEPT !.owner = kwargs.owner] ELSE data

\* ModelResource.obj_update after the lookup: authorize, hydrate, save.
ObjUpdateFound(authorizers, req, rows, data, found) ==
    IF found.kind = "raise"
    THEN IF found.exc = "DoesNotExist"
         THEN Outcome(rows, NoResp, Exc("NotFound", NOT_FOUND))
         ELSE Outcome(rows, NoResp, Exc(found.exc, INTERNAL_SERVER_ERROR))
    ELSE CHOOSE result \in
            {IF denied # NoExc THEN Outcome(rows, NoResp, denied)
             ELSE IF ~data.saves THEN Outcome(rows, NoResp, DatabaseError)
             ELSE Outcome(Save(rows, [pk |-> (CHOOSE o \in found.objs : TRUE).pk,
                                      owner |-> data.owner]), NoResp, NoExc) :
                denied \in {is_authorized(VotesOf(authorizers, req.method, req.user,
                                                  CHOOSE o \in found.objs : TRUE))}} : TRUE

\* ModelResource.obj_update: look the object up, authorize, hydrate, save.
obj_update(authorizers, req, rows, data, kwargs) ==
    CHOOSE result \in
        {ObjUpdateFound(authorizers, req, rows, DataUpdate(data, kwargs), found) :
            found \in {obj_get(authorizers, req, rows, kwargs)}} : TRUE

\* ModelResource.obj_delete_list: delete what the authorization limits admit
\* (a QuerySet and a model instance both have ``delete``).
obj_delete_list(authorizers, req, rows, kwargs) ==
    CHOOSE result \in
        {IF authed_object_list.kind = "raise"
         THEN Outcome(rows, NoResp, Exc(authed_object_list.exc, INTERNAL_SERVER_ERROR))
         ELSE Outcome(rows \ authed_object_list.objs, NoResp, NoExc) :
            authed_object_list \in
                {apply_authorization_limits(authorizers, req.method, req.user,
                                            Filter(rows, kwargs))}} : TRUE

\* ModelResource.obj_delete: ``object`` is read before it is assigned, so the
\* call ends in UnboundLocalError before it reaches the store.
obj_delete(authorizers, req, rows, kwargs) ==
    Outcome(rows, NoResp, Exc("UnboundLocalError", INTERNAL_SERVER_ERROR))

\* A bundle: the deserialized data and the object made from it.
Bundle(data, obj) == [data |-> data, obj |-> obj]

\* ModelResource.rollback: delete the objects of the bundles, in the order of
\* the list, from position i.  The exception of a delete() ends the loop.
RECURSIVE RollbackFrom(_, _, _)
RollbackFrom(rows, bundles, i) ==
    IF i > Len(bundles) THEN Outcome(rows, NoResp, NoExc)
    ELSE IF ~bundles[i].data.deletes THEN Outcome(rows, NoResp, DatabaseError)
    ELSE RollbackFrom({o \in rows : o.pk # bundles[i].obj.pk}, bundles, i + 1)

rollback_mutant_none(rows, bundles) ==
    Outcome(rows, NoResp, NoExc)

rollback(rows, bundles) == RollbackFrom(rows, bundles, 1)

(***************************************************************************)
(* The verb handlers of Resource (resources.py).                           *)
(***************************************************************************)
HttpNoContent == Resp(NO_CONTENT, "HttpNoContent")
HttpAccepted == Resp(ACCEPTED, "HttpAccepted")
HttpCreated == Resp(CREATED, "HttpCreated")
HttpNotFound == Resp(NOT_FOUND, "HttpNotFound")
HttpMultipleChoices == Resp(MULTIPLE_CHOICES, "HttpMultipleChoices")
HttpBadRequest == Resp(BAD_REQUEST, "HttpBadRequest")
HttpResponse == Resp(OK, "HttpResponse")

\* Resource.deserialize: UnsupportedFormat when no parser claims the body.
UnsupportedFormat == Exc("UnsupportedFormat", NOT_ACCEPTABLE)

\* Resource.is_valid: the 400 response with the error map, raised.
ValidationFailed == ImmediateHttpResponse(HttpBadRequest)

\* The loop of put_list over the submitted objects, from position i, with the
\* objects created so far in bundles_seen.
RECURSIVE PutListLoop(_, _, _, _, _)
PutListLoop(m, rows, objects, i, bundles_seen) ==
    IF i > Len(objects)
    THEN Outcome(rows, IF m.always_return_data THEN HttpAccepted ELSE HttpNoContent, NoExc)
    ELSE IF ~objects[i].valid
    THEN CHOOSE result \in
            \* ``raise`` re-raises the validation error when rollback returned
            {IF undone.exc # NoExc THEN undone
             ELSE Outcome(undone.store, NoResp, ValidationFailed) :
                undone \in {rollback(rows, bundles_seen)}} : TRUE
    ELSE CHOOSE result \in
            {IF created.exc # NoExc THEN created
             ELSE PutListLoop(m, created.store, objects, i + 1,
                              Append(bundles_seen,
                                     Bundle(objects[i], Created(rows, objects[i], NoKwargs)))) :
                created \in {obj_create(rows, objects[i], NoKwargs)}} : TRUE

put_list_mutant_delete_first(m, req, rows, body) ==
    IF ~body.parses THEN Outcome(rows, NoResp, UnsupportedFormat)
    ELSE IF ~body.has_objects
    THEN Outcome(obj_delete_list(m.authorization, req, rows, req.kwargs).store, NoResp,
                 Exc("BadRequest", BAD_REQUEST))
    ELSE PutListLoop(m, obj_delete_list(m.authorization, req, rows, req.kwargs).store,
                     body.objects, 1, <<>>)

\* put_list validating every submitted object before it deletes the
\* collection.
put_list_mutant_validate_first(m, req, rows, body) ==
    IF ~body.parses THEN Outcome(rows, NoResp, UnsupportedFormat)
    ELSE IF ~body.has_objects THEN Outcome(rows, NoResp, Exc("BadRequest", BAD_REQUEST))
    ELSE IF \E i \in DOMAIN body.objects : ~body.objects[i].valid
    THEN Outcome(rows, NoResp, ValidationFailed)
    ELSE CHOOSE result \in
            {IF deleted.exc # NoExc THEN deleted
             ELSE PutListLoop(m, deleted.store, body.objects, 1, <<>>) :
                deleted \in {obj_delete_list(m.authorization, req, rows, req.kwargs)}} : TRUE

put_list(m, req, rows, body) ==
    IF ~body.parses THEN Outcome(rows, NoResp, UnsupportedFormat)
    ELSE IF ~body.has_objects THEN Outcome(rows, NoResp, Exc("BadRequest", BAD_REQUEST))
    ELSE CHOOSE result \in
            {IF deleted.exc # NoExc THEN deleted
             ELSE PutListLoop(m, deleted.store, body.objects, 1, <<>>) :
                deleted \in {obj_delete_list(m.authorization, req, rows, req.kwargs)}} : TRUE

\* put_detail after obj_update returned or raised.
PutDetailOn(m, req, rows, body, updated) ==
    IF updated.exc = NoExc
    THEN Outcome(updated.store,
                 IF m.always_return_data THEN HttpAccepted ELSE HttpNoContent, NoExc)
    ELSE IF updated.exc.type \in {"NotFound", "MultipleObjectsReturned"}
    THEN CHOOSE result \in
            {IF created.exc # NoExc THEN created
             ELSE Outcome(created.store, HttpCreated, NoExc) :
                created \in {obj_create(rows, DataUpdate(body.objects[1], req.kwargs),
                                        req.kwargs)}} : TRUE
    ELSE updated

put_detail_mutant_create_always(m, req, rows, body) ==
    IF ~body.parses THEN Outcome(rows, NoResp, UnsupportedFormat)
    ELSE IF ~body.objects[1].valid THEN Outcome(rows, NoResp, ValidationFailed)
    ELSE IF obj_update(m.authorization, req, rows, body.objects[1], req.kwargs).exc = NoExc
    THEN PutDetailOn(m, req, rows, body,
                     obj_update(m.authorization, req, rows, body.objects[1], req.kwargs))
    ELSE PutDetailOn(m, req, rows, body, Outcome(rows, NoResp, Exc("NotFound", NOT_FOUND)))

put_detail(m, req, rows, body) ==
    IF ~body.parses THEN Outcome(rows, NoResp, UnsupportedFormat)
    ELSE IF ~body.objects[1].valid THEN Outcome(rows, NoResp, ValidationFailed)
    ELSE CHOOSE result \in
            {PutDetailOn(m, req, rows, body, updated) :
                updated \in {obj_update(m.authorization, req, rows, body.objects[1],
                                        req.kwargs)}} : TRUE

\* post_list after is_valid returned.
PostListCreate(m, req, rows, body) ==
    CHOOSE result \in
        {IF created.exc # NoExc THEN created
         ELSE Outcome(created.store, HttpCreated, NoExc) :
            created \in {obj_create(rows, body.objects[1], req.kwargs)}} : TRUE

post_list_mutant_create_first(m, req, rows, body) ==
    IF ~body.parses THEN Outcome(rows, NoResp, UnsupportedFormat)
    ELSE IF ~body.objects[1].valid
    THEN Outcome(PostListCreate(m, req, rows, body).store, NoResp, ValidationFailed)
    ELSE PostListCreate(m, req, rows, body)

post_list(m, req, rows, body) ==
    IF ~body.parses THEN Outcome(rows, NoResp, UnsupportedFormat)
    ELSE IF ~body.objects[1].valid THEN Outcome(rows, NoResp, ValidationFailed)
    ELSE PostListCreate(m, req, rows, body)

post_detail(m, req, rows, body) ==
    Outcome(rows, NoResp, Exc("TastypieError", NOT_IMPLEMENTED))

delete_list(m, req, rows, body) ==
    CHOOSE result \in
        {IF deleted.exc # NoExc THEN deleted
         ELSE Outcome(deleted.store, HttpNoContent, NoExc) :
            deleted \in {obj_delete_list(m.authorization, req, rows, req.kwargs)}} : TRUE

delete_detail(m, req, rows, body) ==
    CHOOSE result \in
        {IF deleted.exc = NoExc THEN Outcome(deleted.store, HttpNoContent, NoExc)
         ELSE IF deleted.exc.type = "NotFound" THEN Outcome(rows, HttpNotFound, NoExc)
         ELSE deleted :
            deleted \in {obj_delete(m.authorization, req, rows, req.kwargs)}} : TRUE

get_list(m, req, rows, body) ==
    CHOOSE result \in
        {IF objects.kind = "raise"
         THEN Outcome(rows, NoResp, Exc(objects.exc, INTERNAL_SERVER_ERROR))
         ELSE Outcome(rows, HttpResponse, NoExc) :
            objects \in {apply_authorization_limits(m.authorization, req.method, req.user, rows)}} : TRUE

get_detail(m, req, rows, body) ==
    CHOOSE result \in
        {IF obj.kind # "raise" THEN Outcome(rows, HttpResponse, NoExc)
         ELSE IF obj.exc = "DoesNotExist" THEN Outcome(rows, HttpNotFound, NoExc)
         ELSE IF obj.exc = "MultipleObjectsReturned" THEN Outcome(rows, HttpMultipleChoices, NoExc)
         ELSE Outcome(rows, NoResp, Exc(obj.exc, INTERNAL_SERVER_ERROR)) :
            obj \in {obj_get(m.authorization, req, rows, req.kwargs)}} : TRUE

\* ResourceOptions: multiple_allowed_methods = ['get']
multiple_allowed_methods == {"get"}

\* The body of get_multiple's response: the primary keys of the dehydrated
\* objects and the identifiers not found (no 'not_found' key when empty).
ObjectList(objects, not_found) == [objects |-> objects, not_found |-> not_found]

\* The loop of get_multiple over obj_pks, then create_response.
RECURSIVE GetMultipleLoop(_, _, _, _, _, _, _)
GetMultipleLoop(m, req, rows, obj_pks, i, objects, not_found) ==
    IF i > Len(obj_pks)
    THEN Outcome(rows, [HttpResponse EXCEPT !.content = ObjectList(objects, not_found)], NoExc)
    ELSE CHOOSE result \in
            {IF obj.kind # "raise"
             THEN GetMultipleLoop(m, req, rows, obj_pks, i + 1,
                                  Append(objects, (CHOOSE o \in obj.objs : TRUE).pk), not_found)
             ELSE IF obj.exc = "DoesNotExist"
             THEN GetMultipleLoop(m, req, rows, obj_pks, i + 1,
                                  objects, Append(not_found, obj_pks[i]))
             ELSE Outcome(rows, NoResp, Exc(obj.exc, INTERNAL_SERVER_ERROR)) :
                obj \in {obj_get(m.authorization, req, rows, ByPk(obj_pks[i]))}} : TRUE

\* Resource.get_multiple: its own checks, then the loop.
get_multiple(m, req, rows, obj_pks, auth_result_, should_be_throttled) ==
    IF method_check(req.method, multiple_allowed_methods).exc # NoExc
    THEN Outcome(rows, NoResp, method_check(req.method, multiple_allowed_methods).exc)
    ELSE IF is_authenticated(auth_result_).exc # NoExc
    THEN Outcome(rows, NoResp, is_authenticated(auth_result_).exc)
    ELSE IF throttle_check(should_be_throttled).exc # NoExc
    THEN Outcome(rows, NoResp, throttle_check(should_be_throttled).exc)
    ELSE GetMultipleLoop(m, req, rows, obj_pks, 1, <<>>, <<>>)

\* method(request, **kwargs) for the handler dispatch resolved.
InvokeMethod(handler, m, req, rows, body) ==
    CASE handler = <<"get", "list">> -> get_list(m, req, rows, body)
      [] handler = <<"get", "detail">> -> get_detail(m, req, rows, body)
      [] handler = <<"post", "list">> -> post_list(m, req, rows, body)
      [] handler = <<"post", "detail">> -> post_detail(m, req, rows, body)
      [] handler = <<"put", "list">> -> put_list(m, req, rows, body)
      [] handler = <<"put", "detail">> -> put_detail(m, req, rows, body)
      [] handler = <<"delete", "list">> -> delete_list(m, req, rows, body)
      [] handler = <<"delete", "detail">> -> delete_detail(m, req, rows, body)

(***************************************************************************)
(* Resource.wrap_view: the translation of an exception into a response.    *)
(***************************************************************************)
\* The messages of an error body: the raised exception's own message, the
\* canned message of the settings, or a fixed text of handle_error.
OwnMessage == "message of the exception"
CannedMessage == "TASTYPIE_CANNED_ERROR"

\* An ErrorResponse: its message, its status, its headers and whether it has
\* a ``traceback`` attribute.
ErrorResponse(message, status, headers, traceback) ==
    [message |-> message, status |-> status, headers |-> headers, traceback |-> traceback]
None == ErrorResponse("none", 0, {}, FALSE)

handle_error(e) ==
    IF e.type \in {"NotFound", "DoesNotExist"}
    THEN ErrorResponse("Not found", NOT_FOUND, {}, FALSE)
    ELSE IF e.type = "MultipleObjectsReturned"
    THEN ErrorResponse("More than one resource is found at this URI.", MULTIPLE_CHOICES, {}, FALSE)
    ELSE IF e.type = "BadHeaderError" THEN ErrorResponse("Bad headers", BAD_REQUEST, {}, FALSE)
    ELSE IF e.type \in TastypieErrors THEN ErrorResponse(OwnMessage, e.status, {}, FALSE)
    ELSE None

handle_500_mutant_leak(cfg, e) ==
    ErrorResponse(OwnMessage, INTERNAL_SERVER_ERROR, {}, cfg.DEBUG)

handle_500(cfg, e) ==
    IF cfg.DEBUG THEN ErrorResponse(OwnMessage, INTERNAL_SERVER_ERROR, {}, TRUE)
    ELSE ErrorResponse(CannedMessage, INTERNAL_SERVER_ERROR, {}, FALSE)

\* What the wrapper ends with: a response returned to the client, or an
\* exception that escapes it.
Responded(resp) == [pc |-> "responded", response |-> resp]
Escaped == [pc |-> "escaped", response |-> NoResp]

\* format_error then render; format_error reads e.traceback when DEBUG is
\* set, an attribute only an ErrorResponse built with traceback=True has.
format_error(cfg, er) ==
    IF cfg.DEBUG /\ ~er.traceback THEN Escaped
    ELSE Responded([Resp(er.status, "format_error") EXCEPT
                        !.content = [code |-> er.status, message |-> er.message,
                                     trace |-> cfg.DEBUG /\ er.traceback]])

\* The except clauses of the wrapper for the exception e.
wrap_view(cfg, e) ==
    IF e.resp # NoResp THEN Responded(e.resp)
    ELSE IF cfg.DEBUG /\ cfg.TASTYPIE_FULL_DEBUG THEN Escaped
    ELSE LET er == handle_error(e)
         IN  IF er = None THEN format_error(cfg, handle_500(cfg, e))
             ELSE format_error(cfg, er)

Settings == {cfg \in [DEBUG : BOOLEAN, TASTYPIE_FULL_DEBUG : BOOLEAN] :
                cfg.TASTYPIE_FULL_DEBUG => cfg.DEBUG}

(***************************************************************************)
(* The dispatch cycle: one request after another through wrap_view and     *)
(* Resource.dispatch.                                                      *)
(***************************************************************************)
NoCall == [kind |-> "none"]

dispatch_vars == <<meta, settings, store, pc, request, auth_result, passed, raised,
                   response, accessed>>

InitDispatch ==
    /\ meta \in {ResourceOptions(o) : o \in MetaOverrides}
    /\ settings \in Settings
    /\ store \in Tables
    /\ pc = "idle"
    /\ request = NoRequest
    /\ auth_result = NoAuthResult
    /\ passed = <<>>
    /\ raised = NoExc
    /\ response = NoResp
    /\ accessed = 0

Init ==
    /\ InitDispatch
    /\ az = NoCall
    /\ lim = NoCall
    /\ flt = NoCall
    /\ hc = NoCall
    /\ hy = NoCall
    /\ ds = NoCall
    /\ ob = NoCall
    /\ hd = NoCall
    /\ ch = NoCall
    /\ cc = NoCall
    /\ pg = NoCall
    /\ rel = NoCall

\* A request enters the wrapper of dispatch_list or dispatch_detail.
Receive(req) ==
    /\ pc \in {"idle", "responded", "escaped"}
    /\ pc' = "received"
    /\ request' = req
    /\ auth_result' = NoAuthResult
    /\ passed' = <<>>
    /\ raised' = NoExc
    /\ response' = NoResp
    /\ accessed' = 0
    /\ UNCHANGED <<meta, settings, store, az, lim, flt, hc, hy, ds, ob, hd, ch, cc, pg, rel>>

\* A dispatch step that raised: the exception travels up to the wrapper.
Raise(exc) ==
    /\ pc' = "raised"
    /\ raised' = exc
    /\ UNCHANGED <<passed, response>>

MethodCheck ==
    /\ pc = "received"
    /\ LET checked == method_check(request.method, AllowedMethods(meta, request.type))
       IN  IF checked.exc # NoExc THEN Raise(checked.exc)
           ELSE /\ pc' = "method_checked"
                /\ passed' = Append(passed, "method_check")
                /\ UNCHANGED <<raised, response>>
    /\ UNCHANGED <<meta, settings, store, request, auth_result, accessed, az, lim, flt, hc, hy, ds, ob, hd, ch, cc, pg, rel>>

\* getattr(self, "%s_%s" % (request_method, request_type), None)
ResolveHandler ==
    /\ pc = "method_checked"
    /\ IF <<Lower(request.method), request.type>> \notin Handlers
       THEN Raise(Exc("TastypieError", NOT_IMPLEMENTED))
       ELSE /\ pc' = "resolved"
            /\ passed' = Append(passed, "resolve")
            /\ UNCHANGED <<raised, response>>
    /\ UNCHANGED <<meta, settings, store, request, auth_result, accessed, az, lim, flt, hc, hy, ds, ob, hd, ch, cc, pg, rel>>

IsAuthenticated ==
    /\ pc = "resolved"
    /\ \E result \in AuthResults :
        /\ auth_result' = result
        /\ LET checked == is_authenticated(result)
           IN  IF checked.exc # NoExc THEN Raise(checked.exc)
               ELSE /\ pc' = "authenticated"
                    /\ passed' = Append(passed, "is_authenticated")
                    /\ UNCHANGED <<raised, response>>
    /\ UNCHANGED <<meta, settings, store, request, accessed, az, lim, flt, hc, hy, ds, ob, hd, ch, cc, pg, rel>>

ThrottleCheck ==
    /\ pc = "authenticated"
    /\ \E should_be_throttled \in BOOLEAN :
        LET checked == throttle_check(should_be_throttled)
        IN  IF checked.exc # NoExc THEN Raise(checked.exc)
            ELSE /\ pc' = "throttle_checked"
                 /\ passed' = Append(passed, "throttle_check")
                 /\ UNCHANGED <<raised, response>>
    /\ UNCHANGED <<meta, settings, store, request, auth_result, accessed, az, lim, flt, hc, hy, ds, ob, hd, ch, cc, pg, rel>>

\* The handler runs; when it returns, the access is logged and a result that
\* is no HttpResponse becomes 204.
InvokeHandler ==
    /\ pc = "throttle_checked"
    /\ \E body \in Bodies :
        \E out \in {InvokeMethod(<<Lower(request.method), request.type>>, meta, request, store, body)} :
            /\ out.store \in Tables
            /\ store' = out.store
            /\ passed' = Append(passed, "handler")
            /\ IF out.exc # NoExc
               THEN /\ pc' = "raised"
                    /\ raised' = out.exc
                    /\ UNCHANGED <<response, accessed>>
               ELSE /\ pc' = "returned"
                    /\ accessed' = accessed + 1
                    /\ response' = IF out.ret = NoResp THEN HttpNoContent ELSE out.ret
                    /\ UNCHANGED raised
    /\ UNCHANGED <<meta, settings, request, auth_result, az, lim, flt, hc, hy, ds, ob, hd, ch, cc, pg, rel>>

\* The wrapper hands the response of dispatch to the client.
Return ==
    /\ pc = "returned"
    /\ pc' = "responded"
    /\ UNCHANGED <<meta, settings, store, request, auth_result, passed, raised,
                   response, accessed, az, lim, flt, hc, hy, ds, ob, hd, ch, cc, pg, rel>>

\* The wrapper translates the exception.
WrapView ==
    /\ pc = "raised"
    /\ LET out == wrap_view(settings, raised)
       IN  /\ pc' = out.pc
           /\ response' = out.response
    /\ UNCHANGED <<meta, settings, store, request, auth_result, passed, raised,
                   accessed, az, lim, flt, hc, hy, ds, ob, hd, ch, cc, pg, rel>>

Next ==
    \/ \E req \in Requests : Receive(req)
    \/ MethodCheck
    \/ ResolveHandler
    \/ IsAuthenticated
    \/ ThrottleCheck
    \/ InvokeHandler
    \/ Return
    \/ WrapView

Spec == Init /\ [][Next]_vars

(***************************************************************************)
(* One is_authorized call of a storage operation (obj_update, obj_delete)  *)
(* under the wrapper, for every short list of policies.                    *)
(***************************************************************************)
\* The response a policy's is_authorized hands back instead of a truth value.
AuthorizationResponse == Resp(FORBIDDEN, "authorization policy")

\* The policies the lists are drawn from.
Policies ==
    {ReadOnlyAuthorization, OpenAuthorization, OwnerDjangoAuthorization, Authorization}
    \cup {Custom(vote, LNone) : vote \in Votes}

PolicyLists == UNION {[1..n -> Policies] : n \in 0..MaxPolicies}

InitAuthz ==
    /\ az \in [state : {"called"},
               authorization : PolicyLists,
               method : {"GET", "PUT"},
               user : {"alice"},
               object : {NoObject, [pk |-> 1, owner |-> "alice"], [pk |-> 1, owner |-> "bob"]},
               raised : {NoExc},
               response : {NoResp}]
    /\ settings \in Settings
    /\ meta = ResourceOptions(CHOOSE o \in MetaOverrides : TRUE)
    /\ store = {}
    /\ pc = "idle"
    /\ request = NoRequest
    /\ auth_result = NoAuthResult
    /\ passed = <<>>
    /\ raised = NoExc
    /\ response = NoResp
    /\ accessed = 0
    /\ lim = NoCall
    /\ flt = NoCall
    /\ hc = NoCall
    /\ hy = NoCall
    /\ ds = NoCall
    /\ ob = NoCall
    /\ hd = NoCall
    /\ ch = NoCall
    /\ cc = NoCall
    /\ pg = NoCall
    /\ rel = NoCall

\* self.is_authorized(request, object) returns or raises.
IsAuthorized ==
    /\ az.state = "called"
    /\ \E exc \in {is_authorized(VotesOf(az.authorization, az.method, az.user, az.object))} :
        az' = [az EXCEPT !.state = IF exc = NoExc THEN "authorized" ELSE "raised",
                         !.raised = exc]
    /\ UNCHANGED <<dispatch_vars, lim, flt, hc, hy, ds, ob, hd, ch, cc, pg, rel>>

\* The wrapper translates the exception of the denied request.
AuthzWrapView ==
    /\ az.state = "raised"
    /\ \E out \in {wrap_view(settings, az.raised)} :
        az' = [az EXCEPT !.state = out.pc, !.response = out.response]
    /\ UNCHANGED <<dispatch_vars, lim, flt, hc, hy, ds, ob, hd, ch, cc, pg, rel>>

NextAuthz ==
    \/ IsAuthorized
    \/ AuthzWrapView

SpecAuthz == InitAuthz /\ [][NextAuthz]_vars

\* The votes the policies of the call cast, and the positions of those that
\* do not defer.
AzVotes == VotesOf(az.authorization, az.method, az.user, az.object)
AzDecisive == {i \in 1..Len(az.authorization) : AzVotes[i] # "None"}
AzFirst == CHOOSE i \in AzDecisive : \A j \in AzDecisive : i <= j

\* C4: the first policy that does not defer decides the call: it is
\* authorized exactly when that policy votes True, and it ends in
\* PermissionDenied (403) when that policy denies and when every policy defers
\* or none is configured.
C4_FirstDecisiveVoteWins ==
    az.state # "called" =>
        /\ (az.raised = NoExc) <=> (AzDecisive # {} /\ AzVotes[AzFirst] = "True")
        /\ az.raised # NoExc => az.raised = Exc("PermissionDenied", FORBIDDEN)
        /\ (az.state = "responded" /\ ~settings.DEBUG) => az.response.status = FORBIDDEN

\* C4 witness: a deferring policy followed by an allowing one authorized the
\* call.
C4_Witness ==
    /\ az.state = "authorized"
    /\ Len(az.authorization) = 2
    /\ AzVotes = <<"None", "True">>

\* C5: when the deciding policy returned a pre-built response, the request is
\* denied and the client receives that response.
C5_PolicyResponseEmitted ==
    (az.state \in {"responded", "escaped"} /\ AzDecisive # {} /\ AzVotes[AzFirst] = "Response") =>
        /\ az.raised # NoExc
        /\ az.state = "responded"
        /\ az.response = AuthorizationResponse

(***************************************************************************)
(* Properties of the dispatch cycle.                                       *)
(***************************************************************************)
Range(seq) == {seq[i] : i \in 1..Len(seq)}

\* The request has left dispatch: its response is with the client, or its
\* exception left the wrapper.
Ended == pc \in {"responded", "escaped"}

\* The request ended in an error: an error status, or an exception that left
\* the wrapper for the server's own error page.
EndedInError == (pc = "escaped") \/ (pc = "responded" /\ response.status >= BAD_REQUEST)

ChecksInOrder == <<"method_check", "resolve", "is_authenticated", "throttle_check">>

\* C1: the verb handler is invoked only after method_check, the handler
\* lookup, is_authenticated and throttle_check passed, in this order, for a
\* request whose method is allowed, whose handler exists and whose
\* authentication succeeded; a request that failed one of the checks ends in
\* an error response and its handler is never invoked.
C1_HandlerOnlyAfterChecks ==
    /\ "handler" \in Range(passed) =>
        /\ passed = ChecksInOrder \o <<"handler">>
        /\ Lower(request.method) \in AllowedMethods(meta, request.type)
        /\ Lower(request.method) # "options"
        /\ <<Lower(request.method), request.type>> \in Handlers
        /\ auth_result = "True"
    /\ \A n \in 1..Len(passed) : n <= Len(ChecksInOrder) => passed[n] = ChecksInOrder[n]
    /\ (Ended /\ Len(passed) < Len(ChecksInOrder)) =>
        /\ "handler" \notin Range(passed)
        /\ EndedInError

\* C1 witness: a handler ran after the four checks and its response went out.
C1_Witness ==
    /\ pc = "responded"
    /\ passed = ChecksInOrder \o <<"handler">>
    /\ response.status = CREATED

\* C2: once method_check has run, an OPTIONS request was rejected with
\* MethodNotAllowed even when 'options' is listed as allowed; a request whose
\* lower-cased method is not allowed was rejected whether or not a handler of
\* that name exists; and only a request with an allowed method passed the check.
C2_MethodCheckRejects ==
    pc \notin {"idle", "received"} =>
        IF Lower(request.method) = "options"
        THEN passed = <<>> /\ raised = MethodNotAllowed(AllowedMethods(meta, request.type))
        ELSE IF Lower(request.method) \notin AllowedMethods(meta, request.type)
        THEN passed = <<>> /\ raised = Exc("TastypieError", BAD_REQUEST)
        ELSE passed # <<>> /\ passed[1] = "method_check"

\* C2 witness: an OPTIONS request was rejected although the scope lists
\* 'options', and the request is over.
C2_Witness ==
    /\ Ended
    /\ request.method = "OPTIONS"
    /\ "options" \in AllowedMethods(meta, request.type)
    /\ raised.type = "MethodNotAllowed"
    /\ "handler" \notin Range(passed)

\* C3 as stated: every true result of the authentication policy that is not a
\* response lets the request proceed, a response is emitted as it is, and any
\* other result ends in 401.
C3_TruthyPasses ==
    auth_result # NoAuthResult =>
        CASE auth_result \in {"True", "Truthy"} ->
                Len(passed) >= 3 /\ passed[3] = "is_authenticated"
          [] auth_result = "Response" ->
                /\ Len(passed) = 2
                /\ Ended => (pc = "responded" /\ response = PolicyResponse)
          [] OTHER ->
                /\ Len(passed) = 2
                /\ Ended => (pc = "responded" /\ response = HttpUnauthorized)

\* C3 amended: the request proceeds only when the authentication policy
\* returns exactly True; a response-shaped result is emitted as it is; every
\* other result, true values other than True included, ends in 401.
C3_OnlyTruePasses ==
    auth_result # NoAuthResult =>
        CASE auth_result = "True" ->
                Len(passed) >= 3 /\ passed[3] = "is_authenticated"
          [] auth_result = "Response" ->
                /\ Len(passed) = 2
                /\ raised = ImmediateHttpResponse(PolicyResponse)
                /\ Ended => (pc = "responded" /\ response = PolicyResponse)
          [] OTHER ->
                /\ Len(passed) = 2
                /\ raised = ImmediateHttpResponse(HttpUnauthorized)
                /\ Ended => (pc = "responded" /\ response = HttpUnauthorized)

\* C3 witness: the policy's own response reached the client.
C3_Witness ==
    /\ auth_result = "Response"
    /\ pc = "responded"
    /\ response = PolicyResponse

\* C6: under the default ReadOnlyAuthorization no POST, PUT or DELETE request
\* changes the store.
C6_ReadOnlyStore ==
    [][(meta.authorization = <<ReadOnlyAuthorization>>
        /\ request.method \in {"POST", "PUT", "DELETE"}) => store' = store]_vars


(***************************************************************************)
(* One apply_authorization_limits call, for every short list of policies   *)
(* and every object list.                                                  *)
(***************************************************************************)
\* The policies whose get_limits the lists are drawn from.
LimitPolicies ==
    {ReadOnlyAuthorization, OpenAuthorization, OwnerDjangoAuthorization, Authorization}
    \cup {Custom("None", limit) : limit \in Limits}

LimitPolicyLists == UNION {[1..n -> LimitPolicies] : n \in 0..MaxPolicies}

NoResult == [kind |-> "none", objs |-> {}, exc |-> "none"]

InitLimits ==
    /\ lim \in [state : {"called"},
                authorization : LimitPolicyLists,
                method : {"GET", "PUT"},
                user : {"alice"},
                object_list : Tables,
                result : {NoResult}]
    /\ settings = CHOOSE cfg \in Settings : ~cfg.DEBUG
    /\ meta = ResourceOptions(CHOOSE o \in MetaOverrides : TRUE)
    /\ store = {}
    /\ pc = "idle"
    /\ request = NoRequest
    /\ auth_result = NoAuthResult
    /\ passed = <<>>
    /\ raised = NoExc
    /\ response = NoResp
    /\ accessed = 0
    /\ az = NoCall
    /\ flt = NoCall
    /\ hc = NoCall
    /\ hy = NoCall
    /\ ds = NoCall
    /\ ob = NoCall
    /\ hd = NoCall
    /\ ch = NoCall
    /\ cc = NoCall
    /\ pg = NoCall
    /\ rel = NoCall

\* self.apply_authorization_limits(request, object_list) returns or raises.
ApplyAuthorizationLimits ==
    /\ lim.state = "called"
    /\ \E result \in {apply_authorization_limits(lim.authorization, lim.method,
                                                 lim.user, lim.object_list)} :
        lim' = [lim EXCEPT !.state = IF result.kind = "raise" THEN "raised" ELSE "returned",
                           !.result = result]
    /\ UNCHANGED <<dispatch_vars, az, flt, hc, hy, ds, ob, hd, ch, cc, pg, rel>>

NextLimits == ApplyAuthorizationLimits

SpecLimits == InitLimits /\ [][NextLimits]_vars

\* The rows a single restriction value lets through: none for False, all for
\* True and None, the matching rows for a Q object.
RowsAllowedBy(limit, object_list) ==
    CASE limit.kind = "False" -> {}
      [] limit.kind = "Q" -> {o \in object_list : o.owner \in limit.owners}
      [] OTHER -> object_list

LimCalled == lim.state \in {"returned", "raised"}
LimRestriction == Restriction(lim.authorization, lim.method, lim.user)

\* C7: the call returns a collection: the empty one when the combined
\* restriction is deny-all, the unchanged one when it is allow-all or absent,
\* and otherwise the rows of the object list that match the restriction.
C7_LimitsBranchOnRestriction ==
    LimCalled =>
        lim.result = AsList(RowsAllowedBy(LimRestriction, lim.object_list))

\* C8: the rows the call lets through are let through by every configured
\* policy's own restriction, in whatever order the policies are listed.
C8_AtLeastAsRestrictiveAsEach ==
    LimCalled =>
        \A i \in 1..Len(lim.authorization) :
            HasGetLimits(lim.authorization[i]) =>
                lim.result.objs \subseteq
                    RowsAllowedBy(get_limits(lim.authorization[i], lim.method, lim.user),
                                  lim.object_list)


(***************************************************************************)
(* ModelResource.check_filtering and build_filters (resources.py), on an   *)
(* article resource with a plain field, a relation to an author resource   *)
(* and a field without attribute.                                          *)
(***************************************************************************)
\* django.db.models.sql.constants.QUERY_TERMS
QUERY_TERMS ==
    {"exact", "iexact", "contains", "icontains", "gt", "gte", "lt", "lte", "in",
     "startswith", "istartswith", "endswith", "iendswith", "range", "year",
     "month", "day", "week_day", "isnull", "search", "regex", "iregex"}

\* The values of a ``filtering`` entry: the two sentinels or a list of filter
\* types.
FilterSpec(kind, types) == [kind |-> kind, types |-> types]
ALL == FilterSpec("ALL", {})
ALL_WITH_RELATIONS == FilterSpec("ALL_WITH_RELATIONS", {})
Only(types) == FilterSpec("list", types)

\* self.fields of the two resources: attribute (NoAttribute for None),
\* is_related and the resource get_related_resource returns.
NoAttribute == "<None>"
Field(attribute, is_related, to) ==
    [attribute |-> attribute, is_related |-> is_related, to |-> to]

FieldsOf(resource) ==
    IF resource = "ArticleResource"
    THEN [name |-> Field("title", FALSE, "none"),
          author |-> Field("writer", TRUE, "AuthorResource"),
          computed |-> Field(NoAttribute, FALSE, "none")]
    ELSE [name |-> Field("full_name", FALSE, "none")]

\* The ``filtering`` options: a function from the listed field names of each
\* resource to their entries.  The author resource may list a name that is
\* not one of its fields.
FilteringOf(listed, choices) ==
    UNION {[names -> choices] : names \in SUBSET listed}

Filterings ==
    [ArticleResource :
        {f \in FilteringOf({"name", "author", "computed"},
                           {ALL, ALL_WITH_RELATIONS, Only({"exact"})}) :
            /\ "name" \in DOMAIN f => f["name"] \in {ALL, Only({"exact"})}
            /\ "author" \in DOMAIN f => f["author"] \in {ALL, ALL_WITH_RELATIONS}
            /\ "computed" \in DOMAIN f => f["computed"] = ALL},
     AuthorResource :
        {f \in FilteringOf({"name", "ghost"}, {ALL, Only({"exact"})}) :
            /\ "name" \in DOMAIN f => f["name"] = Only({"exact"})
            /\ "ghost" \in DOMAIN f => f["ghost"] = ALL}]

\* What check_filtering and build_filters hand back: a value or the exception
\* raised.
Returns(value) == [kind |-> "return", value |-> value, exc |-> "none"]
RaisesError(type) == [kind |-> "raise", value |-> <<>>, exc |-> type]
InvalidFilterError == RaisesError("InvalidFilterError")

\* The check on the related resource continued: [attribute] + the related
\* resource's list.
Prepend(attribute, rest) ==
    IF rest.kind = "raise" THEN rest ELSE Returns(<<attribute>> \o rest.value)

RECURSIVE CheckFrom(_, _, _, _, _)
CheckFrom(resource, filtering, field_name, filter_type, filter_bits) ==
    IF field_name \notin DOMAIN filtering[resource] THEN InvalidFilterError
    ELSE IF /\ filtering[resource][field_name] \notin {ALL, ALL_WITH_RELATIONS}
            /\ filter_type \notin filtering[resource][field_name].types
         THEN InvalidFilterError
    ELSE IF field_name \notin DOMAIN FieldsOf(resource) THEN RaisesError("KeyError")
    ELSE IF FieldsOf(resource)[field_name].attribute = NoAttribute THEN InvalidFilterError
    ELSE IF Len(filter_bits) > 0
         THEN IF ~FieldsOf(resource)[field_name].is_related THEN InvalidFilterError
              ELSE IF filtering[resource][field_name] # ALL_WITH_RELATIONS
                   THEN InvalidFilterError
              ELSE Prepend(FieldsOf(resource)[field_name].attribute,
                           CheckFrom(FieldsOf(resource)[field_name].to, filtering,
                                     filter_bits[1], filter_type, Tail(filter_bits)))
    ELSE Returns(<<FieldsOf(resource)[field_name].attribute>>)

check_filtering_mutant_unlisted(resource, filtering, field_name, filter_type, filter_bits) ==
    IF field_name \notin DOMAIN filtering[resource] /\ field_name \in DOMAIN FieldsOf(resource)
    THEN Returns(<<FieldsOf(resource)[field_name].attribute>>)
    ELSE CheckFrom(resource, filtering, field_name, filter_type, filter_bits)

check_filtering_mutant_whitelist(resource, filtering, field_name, filter_type, filter_bits) ==
    IF /\ field_name \in DOMAIN filtering[resource]
       /\ filtering[resource][field_name] \notin {ALL, ALL_WITH_RELATIONS}
    THEN CheckFrom(resource, [filtering EXCEPT ![resource][field_name] = ALL],
                   field_name, filter_type, filter_bits)
    ELSE CheckFrom(resource, filtering, field_name, filter_type, filter_bits)

check_filtering(resource, filtering, field_name, filter_type, filter_bits) ==
    CheckFrom(resource, filtering, field_name, filter_type, filter_bits)

\* The values of a filter: a string, True, False, None or a list of strings.
Value(kind, s) == [kind |-> kind, s |-> s]
Str(s) == Value("str", s)

\* The normalisation of the value.
Normalise(value) ==
    IF value \in {Str("true"), Str("True"), Value("True", "")} THEN Value("True", "")
    ELSE IF value \in {Str("false"), Str("False"), Value("False", "")} THEN Value("False", "")
    ELSE IF value \in {Str("nil"), Str("none"), Str("None"), Value("None", "")}
         THEN Value("None", "")
    ELSE value

\* One entry of qs_filters: the key is the attribute path joined to the
\* filter type; ``expr`` remembers the expression the entry was made from.
QsFilter(expr, path, filter_type, value) ==
    [expr |-> expr, path |-> path, filter_type |-> filter_type, value |-> value]

\* qs_filters[qs_filter] = value
SetItem(qs_filters, entry) ==
    {f \in qs_filters : ~(f.path = entry.path /\ f.filter_type = entry.filter_type)}
    \cup {entry}

\* The split of the bits after the field name into the relation bits and the
\* filter type.
HasFilterType(bits) == Len(bits) > 0 /\ bits[Len(bits)] \in QUERY_TERMS
FilterType(bits) == IF HasFilterType(bits) THEN bits[Len(bits)] ELSE "exact"
FilterBits(bits) == IF HasFilterType(bits) THEN SubSeq(bits, 1, Len(bits) - 1) ELSE bits

\* The loop of build_filters over filters.items() in the order ``order``,
\* from position i.
RECURSIVE BuildFrom(_, _, _, _, _, _)
BuildFrom(resource, filtering, filters, order, i, qs_filters) ==
    IF i > Len(order) THEN Returns(qs_filters)
    ELSE IF order[i][1] \notin DOMAIN FieldsOf(resource)
         THEN BuildFrom(resource, filtering, filters, order, i + 1, qs_filters)
    ELSE CHOOSE result \in
        {IF lookup_bits.kind = "raise" THEN lookup_bits
         ELSE IF /\ FilterType(Tail(order[i])) \in {"in", "range"}
                 /\ Normalise(filters[order[i]]).kind \notin {"str", "list"}
              THEN RaisesError("TypeError")
         ELSE BuildFrom(resource, filtering, filters, order, i + 1,
                SetItem(qs_filters,
                    QsFilter(order[i], lookup_bits.value, FilterType(Tail(order[i])),
                        IF /\ FilterType(Tail(order[i])) \in {"in", "range"}
                           /\ Normalise(filters[order[i]]).s # ""
                        THEN Value("list", filters[order[i]].s)
                        ELSE Normalise(filters[order[i]])))) :
            lookup_bits \in {check_filtering(resource, filtering, order[i][1],
                                             FilterType(Tail(order[i])),
                                             FilterBits(Tail(order[i])))}} : TRUE

build_filters(resource, filtering, filters, order) ==
    BuildFrom(resource, filtering, filters, order, 1, {})

\* The filter expressions of the requests, split on LOOKUP_SEP, and their
\* values.
FilterExprs ==
    {<<"name">>, <<"name", "in">>, <<"name", "author">>, <<"author">>,
     <<"author", "name">>, <<"author", "ghost">>, <<"computed">>, <<"format">>}

FilterValues == {Str("x"), Str("true")}

\* The dictionaries of at most MaxFilters filters.
FilterDicts ==
    UNION {[exprs -> FilterValues] :
            exprs \in {e \in SUBSET FilterExprs : Cardinality(e) <= MaxFilters}}

\* The orders filters.items() may enumerate a dictionary in.
Orders(filters) ==
    {order \in [1..Cardinality(DOMAIN filters) -> DOMAIN filters] :
        \A i, j \in DOMAIN order : order[i] = order[j] => i = j}

\* A term of the ``order_by`` option: a field name, with or without the
\* leading '-', and the bits after it.
OrderBy(desc, bits) == [desc |-> desc, bits |-> bits]

\* The options of the request: the terms under 'order_by' and those under
\* the deprecated 'sort_by'; a key without terms is absent.
SortParams(order_by, sort_by) == [order_by |-> order_by, sort_by |-> sort_by]
NoOrderBy == SortParams(<<>>, <<>>)
SortOptions ==
    {NoOrderBy}
    \cup {SortParams(<<term>>, <<>>) :
            term \in {OrderBy(FALSE, <<"name">>), OrderBy(TRUE, <<"name">>),
                      OrderBy(FALSE, <<"computed">>), OrderBy(FALSE, <<"ghost">>)}}
    \cup {SortParams(<<OrderBy(FALSE, <<"name">>), OrderBy(FALSE, <<"ghost">>)>>, <<>>),
          SortParams(<<OrderBy(TRUE, <<"name">>), OrderBy(FALSE, <<"name">>)>>, <<>>),
          SortParams(<<>>, <<OrderBy(FALSE, <<"name">>)>>),
          SortParams(<<>>, <<OrderBy(FALSE, <<"ghost">>)>>),
          SortParams(<<OrderBy(FALSE, <<"name">>)>>, <<OrderBy(FALSE, <<"ghost">>)>>)}

\* The ``ordering`` options of the resource.
Orderings == {{}, {"name", "computed"}}

\* What apply_sorting returns: the object list as it came, or the result of
\* obj_list.order_by(*order_by_args).
NotOrdered == [called |-> FALSE, args |-> <<>>]
Ordered(order_by_args) == [called |-> TRUE, args |-> order_by_args]

\* The loop of apply_sorting over the terms, with every term that names a
\* declared field accepted whatever the ``ordering`` option says.
RECURSIVE SortLoop_mutant_no_whitelist(_, _, _, _, _)
SortLoop_mutant_no_whitelist(resource, ordering, order_bits, i, order_by_args) ==
    IF i > Len(order_bits) THEN Returns(Ordered(order_by_args))
    ELSE LET field_name == order_bits[i].bits[1]
         IN  IF field_name \notin DOMAIN FieldsOf(resource)
             THEN RaisesError("InvalidSortError")
             ELSE IF FieldsOf(resource)[field_name].attribute = NoAttribute
             THEN RaisesError("InvalidSortError")
             ELSE SortLoop_mutant_no_whitelist(resource, ordering, order_bits, i + 1,
                    Append(order_by_args,
                           OrderBy(order_bits[i].desc,
                                   <<FieldsOf(resource)[field_name].attribute>>
                                       \o Tail(order_bits[i].bits))))

\* The loop of apply_sorting over the terms, from term i, with the arguments
\* for order_by collected so far.
RECURSIVE SortLoop(_, _, _, _, _)
SortLoop(resource, ordering, order_bits, i, order_by_args) ==
    IF i > Len(order_bits) THEN Returns(Ordered(order_by_args))
    ELSE LET field_name == order_bits[i].bits[1]
         IN  IF field_name \notin DOMAIN FieldsOf(resource)
             THEN RaisesError("InvalidSortError")
             ELSE IF field_name \notin ordering
             THEN RaisesError("InvalidSortError")
             ELSE IF FieldsOf(resource)[field_name].attribute = NoAttribute
             THEN RaisesError("InvalidSortError")
             ELSE SortLoop(resource, ordering, order_bits, i + 1,
                    Append(order_by_args,
                           OrderBy(order_bits[i].desc,
                                   <<FieldsOf(resource)[field_name].attribute>>
                                       \o Tail(order_bits[i].bits))))

\* ModelResource.apply_sorting: the object list unchanged, the call of
\* order_by with its arguments, or the exception.
apply_sorting(resource, ordering, options) ==
    IF options.order_by = <<>> /\ options.sort_by = <<>> THEN Returns(NotOrdered)
    ELSE SortLoop(resource, ordering,
                  IF options.order_by # <<>> THEN options.order_by ELSE options.sort_by,
                  1, <<>>)

InitFilters ==
    /\ flt \in [state : {"called"},
                filtering : Filterings,
                filters : FilterDicts,
                qs_filters : {{}},
                ordering : {{}},
                options : {NoOrderBy},
                order_by_args : {NotOrdered},
                exc : {"none"},
                response : {NoResp}]
    /\ settings = CHOOSE cfg \in Settings : ~cfg.DEBUG
    /\ meta = ResourceOptions(CHOOSE o \in MetaOverrides : TRUE)
    /\ store = {}
    /\ pc = "idle"
    /\ request = NoRequest
    /\ auth_result = NoAuthResult
    /\ passed = <<>>
    /\ raised = NoExc
    /\ response = NoResp
    /\ accessed = 0
    /\ az = NoCall
    /\ lim = NoCall
    /\ hc = NoCall
    /\ hy = NoCall
    /\ ds = NoCall
    /\ ob = NoCall
    /\ hd = NoCall
    /\ ch = NoCall
    /\ cc = NoCall
    /\ pg = NoCall
    /\ rel = NoCall

\* obj_get_list: applicable_filters = self.build_filters(filters=filters)
BuildFilters ==
    /\ flt.state = "called"
    /\ \E order \in Orders(flt.filters) :
        \E out \in {build_filters("ArticleResource", flt.filtering, flt.filters, order)} :
            flt' = [flt EXCEPT !.state = IF out.kind = "raise" THEN "raised" ELSE "built",
                               !.qs_filters = IF out.kind = "raise" THEN {} ELSE out.value,
                               !.exc = out.exc]
    /\ UNCHANGED <<dispatch_vars, az, lim, hc, hy, ds, ob, hd, ch, cc, pg, rel>>

\* obj_get_list: the filters built are handed to the storage collaborator.
ApplyFilters ==
    /\ flt.state = "built"
    /\ flt' = [flt EXCEPT !.state = "queried"]
    /\ UNCHANGED <<dispatch_vars, az, lim, hc, hy, ds, ob, hd, ch, cc, pg, rel>>

\* get_list: sorted_objects = self.apply_sorting(objects, options=request.GET)
ApplySorting ==
    /\ flt.state = "queried"
    /\ \E ordering \in Orderings, options \in SortOptions :
        \E out \in {apply_sorting("ArticleResource", ordering, options)} :
            flt' = [flt EXCEPT !.state = IF out.kind = "raise" THEN "sort_raised" ELSE "sorted",
                               !.ordering = ordering,
                               !.options = options,
                               !.order_by_args = IF out.kind = "raise" THEN NotOrdered
                                                 ELSE out.value,
                               !.exc = out.exc]
    /\ UNCHANGED <<dispatch_vars, az, lim, hc, hy, ds, ob, hd, ch, cc, pg, rel>>

\* The wrapper translates the exception build_filters or apply_sorting raised.
FiltersWrapView ==
    /\ flt.state \in {"raised", "sort_raised"}
    /\ \E out \in {wrap_view(settings, Raised(flt.exc))} :
        flt' = [flt EXCEPT !.state = out.pc, !.response = out.response]
    /\ UNCHANGED <<dispatch_vars, az, lim, hc, hy, ds, ob, hd, ch, cc, pg, rel>>

NextFilters ==
    \/ BuildFilters
    \/ ApplyFilters
    \/ ApplySorting
    \/ FiltersWrapView

SpecFilters == InitFilters /\ [][NextFilters]_vars


(***************************************************************************)
(* Properties of the filters.                                              *)
(***************************************************************************)
FltDone == flt.state \in {"built", "raised", "queried"}
FltFiltering == flt.filtering["ArticleResource"]
Declared(expr) == expr[1] \in DOMAIN FieldsOf("ArticleResource")
Unlisted(expr) == expr[1] \notin DOMAIN FltFiltering

\* C9 as claimed: a request with a filter expression on a field that the
\* filtering option does not list ends in InvalidFilterError and never
\* reaches the storage.
C9_UnlistedFieldRejected ==
    (FltDone /\ \E expr \in DOMAIN flt.filters : Unlisted(expr)) =>
        flt.state = "raised" /\ flt.exc = "InvalidFilterError"

\* C9 amended: a filter expression on a declared field that the filtering
\* option does not list makes build_filters raise, so that the storage is
\* never queried; the error is InvalidFilterError unless another expression
\* of the same request raised first.  An expression on an undeclared field is
\* skipped: it produces no storage filter and no error.
C9_UnlistedDeclaredFieldRejected ==
    FltDone =>
        /\ (\E expr \in DOMAIN flt.filters : Declared(expr) /\ Unlisted(expr)) =>
            /\ flt.state = "raised"
            /\ flt.exc # "InvalidFilterError" => Cardinality(DOMAIN flt.filters) > 1
        /\ \A f \in flt.qs_filters : Declared(f.expr)
        /\ (\A expr \in DOMAIN flt.filters : ~Declared(expr)) =>
            flt.state # "raised" /\ flt.qs_filters = {}

\* C9 witness: a request whose only filter is on a declared, unlisted field
\* was rejected with InvalidFilterError.
C9_Witness ==
    /\ flt.state = "raised"
    /\ flt.exc = "InvalidFilterError"
    /\ DOMAIN flt.filters = {<<"name">>}
    /\ "name" \notin DOMAIN FltFiltering

\* C10: every storage filter built comes from an expression whose field is
\* listed, whose filter type is whitelisted for that field unless the field
\* is configured ALL or ALL_WITH_RELATIONS, and whose path spans the relation
\* only when the field is a relation configured ALL_WITH_RELATIONS and the
\* related resource lists the next segment and admits the filter type.
C10_BuiltFiltersPassedCheck ==
    \A f \in flt.qs_filters :
        /\ f.expr \in DOMAIN flt.filters
        /\ f.expr[1] \in DOMAIN FltFiltering
        /\ \/ FltFiltering[f.expr[1]].kind \in {"ALL", "ALL_WITH_RELATIONS"}
           \/ f.filter_type \in FltFiltering[f.expr[1]].types
        /\ Len(f.path) > 1 =>
            /\ FieldsOf("ArticleResource")[f.expr[1]].is_related
            /\ FltFiltering[f.expr[1]].kind = "ALL_WITH_RELATIONS"
            /\ f.expr[2] \in DOMAIN flt.filtering["AuthorResource"]
            /\ \/ flt.filtering["AuthorResource"][f.expr[2]].kind \in {"ALL", "ALL_WITH_RELATIONS"}
               \/ f.filter_type \in flt.filtering["AuthorResource"][f.expr[2]].types

\* C10 witness: the storage was queried with a filter that spans the relation.
C10_Witness ==
    /\ flt.state = "queried"
    /\ \E f \in flt.qs_filters : f.path = <<"writer", "full_name">> /\ f.filter_type = "exact"


(***************************************************************************)
(* One handler call under the wrapper on a store whose save() and delete() *)
(* may raise, for the handlers that write.                                 *)
(***************************************************************************)
\* The deserialized objects of these calls.
FaultyData == {d \in AnyData : d.owner = "alice"}

\* The authorization options of these calls.
HandlerPolicies ==
    {ReadOnlyAuthorization, OpenAuthorization, OwnerDjangoAuthorization,
     Custom("None", Q({"alice"}))}

HandlerMetas ==
    {ResourceOptions([o EXCEPT !.authorization = <<p>>]) :
        o \in {CHOOSE o \in MetaOverrides : TRUE}, p \in HandlerPolicies}

HandlerRequest(method, type, kwargs) ==
    [method |-> method, type |-> type, kwargs |-> kwargs, user |-> "alice"]

\* The calls: put_list with every body, the other handlers with the bodies of
\* one object; the detail handlers by primary key and, for put_detail, by a
\* URL that captures the owner.
HandlerCalls ==
    [req : {HandlerRequest("PUT", "list", NoKwargs)}, body : BodiesOf(FaultyData)]
    \cup [req : {HandlerRequest("POST", "list", NoKwargs),
                 HandlerRequest("DELETE", "list", NoKwargs)}
                \cup {HandlerRequest("DELETE", "detail", ByPk(pk)) : pk \in 1..MaxPk}
                \cup {HandlerRequest("PUT", "detail", ByPk(pk)) : pk \in 1..MaxPk}
                \cup {HandlerRequest("PUT", "detail", ByOwner(u)) : u \in Users},
          body : {b \in BodiesOf(FaultyData) : Len(b.objects) = 1}]

NoOutcome == Outcome({}, NoResp, NoExc)

\* The identifiers of a /set/ URL: pk_list split at ';'.
PkLists == UNION {[1..n -> 1..MaxPk] : n \in 1..MaxBatch}

\* The calls of the get_multiple view.
MultipleCalls ==
    [req : {HandlerRequest("GET", "multiple", NoKwargs)},
     body : {CHOOSE b \in BodiesOf(FaultyData) : ~b.has_objects},
     pk_list : PkLists]

InitHandlers ==
    /\ \E m \in HandlerMetas,
          call \in [req : {c.req : c \in HandlerCalls}, body : {c.body : c \in HandlerCalls},
                    pk_list : {<<>>}] \cup MultipleCalls,
          rows \in Tables :
        /\ call.pk_list = <<>> => [req |-> call.req, body |-> call.body] \in HandlerCalls
        /\ hc = [state |-> "called", meta |-> m, req |-> call.req, body |-> call.body,
                 pk_list |-> call.pk_list, checks |-> <<>>,
                 rows |-> rows, out |-> NoOutcome, response |-> NoResp]
    /\ settings = CHOOSE cfg \in Settings : ~cfg.DEBUG
    /\ meta = ResourceOptions(CHOOSE o \in MetaOverrides : TRUE)
    /\ store = {}
    /\ pc = "idle"
    /\ request = NoRequest
    /\ auth_result = NoAuthResult
    /\ passed = <<>>
    /\ raised = NoExc
    /\ response = NoResp
    /\ accessed = 0
    /\ az = NoCall
    /\ lim = NoCall
    /\ flt = NoCall
    /\ hy = NoCall
    /\ ds = NoCall
    /\ ob = NoCall
    /\ hd = NoCall
    /\ ch = NoCall
    /\ cc = NoCall
    /\ pg = NoCall
    /\ rel = NoCall

\* dispatch: response = method(request, **kwargs)
CallHandler ==
    /\ hc.state = "called"
    /\ hc.req.type # "multiple"
    /\ \E out \in {InvokeMethod(<<Lower(hc.req.method), hc.req.type>>, hc.meta, hc.req,
                                hc.rows, hc.body)} :
        hc' = [hc EXCEPT !.state = IF out.exc # NoExc THEN "raised" ELSE "returned",
                         !.out = out]
    /\ UNCHANGED <<dispatch_vars, az, lim, flt, hy, ds, ob, hd, ch, cc, pg, rel>>

\* The wrapper calls get_multiple, with what the authentication policy and
\* the throttle answer.
CallGetMultiple ==
    /\ hc.state = "called"
    /\ hc.req.type = "multiple"
    /\ \E result \in {"True", "False"}, should_be_throttled \in BOOLEAN :
        \E out \in {get_multiple(hc.meta, hc.req, hc.rows, hc.pk_list, result,
                                  should_be_throttled)} :
            hc' = [hc EXCEPT !.state = IF out.exc # NoExc THEN "raised" ELSE "returned",
                             !.checks = <<result, should_be_throttled>>,
                             !.out = out]
    /\ UNCHANGED <<dispatch_vars, az, lim, flt, hy, ds, ob, hd, ch, cc, pg, rel>>

\* The response of the handler goes out through dispatch and the wrapper.
HandlerReturn ==
    /\ hc.state = "returned"
    /\ hc' = [hc EXCEPT !.state = "responded",
                        !.response = IF hc.out.ret = NoResp THEN HttpNoContent ELSE hc.out.ret]
    /\ UNCHANGED <<dispatch_vars, az, lim, flt, hy, ds, ob, hd, ch, cc, pg, rel>>

\* The wrapper translates the exception of the handler.
HandlerWrapView ==
    /\ hc.state = "raised"
    /\ \E out \in {wrap_view(settings, hc.out.exc)} :
        hc' = [hc EXCEPT !.state = out.pc, !.response = out.response]
    /\ UNCHANGED <<dispatch_vars, az, lim, flt, hy, ds, ob, hd, ch, cc, pg, rel>>

NextHandlers ==
    \/ CallHandler
    \/ CallGetMultiple
    \/ HandlerReturn
    \/ HandlerWrapView

SpecHandlers == InitHandlers /\ [][NextHandlers]_vars


(***************************************************************************)
(* Properties of the handlers that write.                                  *)
(***************************************************************************)
HcDone == hc.state \in {"returned", "raised", "responded", "escaped"}
HcIs(method, type) == hc.req.method = method /\ hc.req.type = type

\* The put_list calls that reach the loop over the submitted objects, and the
\* store the loop starts from.
HcCleared == obj_delete_list(hc.meta.authorization, hc.req, hc.rows, hc.req.kwargs)
HcPutListLoops ==
    /\ HcDone
    /\ HcIs("PUT", "list")
    /\ hc.body.parses
    /\ hc.body.has_objects
    /\ HcCleared.exc = NoExc

\* The positions of the submitted objects that fail validation, and the first
\* of them.
HcInvalid == {i \in 1..Len(hc.body.objects) : ~hc.body.objects[i].valid}
HcFirstInvalid == CHOOSE i \in HcInvalid : \A j \in HcInvalid : i <= j

\* C11: when object N of a put_list fails validation after objects 1..N-1
\* were created, and the deletes of the rollback succeed, the store holds
\* none of the objects 1..N-1 and none of the objects N..M, and the call ends
\* with the validation error response.
C11_ValidationFailureRollsBack ==
    (/\ HcPutListLoops
     /\ HcInvalid # {}
     /\ \A i \in 1..(HcFirstInvalid - 1) :
            hc.body.objects[i].saves /\ hc.body.objects[i].deletes) =>
        /\ hc.out.exc = ValidationFailed
        /\ hc.out.store = HcCleared.store
        /\ hc.state \in {"responded", "escaped"} =>
            hc.state = "responded" /\ hc.response = HttpBadRequest

\* C11 witness: the second of two objects failed validation after the first
\* was created into an emptied store, and the client has the error response.
C11_Witness ==
    /\ HcPutListLoops
    /\ hc.state = "responded"
    /\ Len(hc.body.objects) = 2
    /\ hc.body.objects[1].valid /\ hc.body.objects[1].saves /\ hc.body.objects[1].deletes
    /\ ~hc.body.objects[2].valid
    /\ hc.rows # {}
    /\ hc.out.store = {}
    /\ hc.response = HttpBadRequest

\* C12: a put_list that ends with an error after it entered the loop leaves
\* none of the objects it created in the store.
C12_PutListAllOrNothing ==
    (HcPutListLoops /\ hc.out.exc # NoExc) => hc.out.store = HcCleared.store

\* C13: when a delete of the rollback fails, the other created objects are
\* still deleted and the call ends with the validation error response.
C13_RollbackFailureSwallowed ==
    (/\ HcPutListLoops
     /\ HcInvalid # {}
     /\ \A i \in 1..(HcFirstInvalid - 1) : hc.body.objects[i].saves
     /\ \E i \in 1..(HcFirstInvalid - 1) : ~hc.body.objects[i].deletes) =>
        /\ hc.out.exc = ValidationFailed
        /\ Cardinality(hc.out.store \ HcCleared.store) <=
                Cardinality({i \in 1..(HcFirstInvalid - 1) : ~hc.body.objects[i].deletes})
        /\ hc.state \in {"responded", "escaped"} =>
            hc.state = "responded" /\ hc.response = HttpBadRequest

\* C14: a put_list whose parsed body has no 'objects' key ends in BadRequest
\* (400) with the store as it was.
C14_PutListWithoutObjects ==
    (HcDone /\ HcIs("PUT", "list") /\ hc.body.parses /\ ~hc.body.has_objects) =>
        /\ hc.out.exc = Exc("BadRequest", BAD_REQUEST)
        /\ hc.out.store = hc.rows
        /\ hc.state \in {"responded", "escaped"} =>
            hc.state = "responded" /\ hc.response.status = BAD_REQUEST

\* C14 witness: the 400 went out for a collection that the policy would have
\* let put_list clear.
C14_Witness ==
    /\ hc.state = "responded"
    /\ HcIs("PUT", "list")
    /\ hc.body.parses /\ ~hc.body.has_objects
    /\ hc.meta.authorization = <<OpenAuthorization>>
    /\ hc.rows # {}
    /\ hc.response.status = BAD_REQUEST

\* C15: a post_list whose body fails validation ends with the 400 response of
\* is_valid, which carries the error map, and the store as it was.
C15_PostListInvalidCreatesNothing ==
    (HcDone /\ HcIs("POST", "list") /\ hc.body.parses /\ ~hc.body.objects[1].valid) =>
        /\ hc.out.exc = ValidationFailed
        /\ hc.out.store = hc.rows
        /\ hc.state \in {"responded", "escaped"} =>
            hc.state = "responded" /\ hc.response = HttpBadRequest

\* C15 witness: the client of an invalid POST has the 400 response.
C15_Witness ==
    /\ hc.state = "responded"
    /\ HcIs("POST", "list")
    /\ hc.body.parses /\ ~hc.body.objects[1].valid /\ hc.body.objects[1].saves
    /\ hc.response = HttpBadRequest

\* The put_detail calls that reach obj_update, and what obj_update did.
HcUpdated ==
    obj_update(hc.meta.authorization, hc.req, hc.rows, hc.body.objects[1], hc.req.kwargs)
HcPutDetailUpdates ==
    /\ HcDone
    /\ HcIs("PUT", "detail")
    /\ hc.body.parses
    /\ hc.body.objects[1].valid

C17_DeleteMissingIs404 ==
    (/\ HcIs("DELETE", "detail")
     /\ hc.state \in {"responded", "escaped"}
     /\ hc.req.kwargs.pk \notin Pks(hc.rows)) =>
        hc.state = "responded" /\ hc.response.status = NOT_FOUND

\* C18: delete_list removes exactly the objects that the policy's restriction
\* admits, leaves every other object, and is answered 204.
C18_DeleteListWithinLimits ==
    (/\ HcIs("DELETE", "list")
     /\ hc.state \in {"responded", "escaped"}
     /\ get_limits(hc.meta.authorization[1], "DELETE", hc.req.user).kind # "Tuple") =>
        /\ hc.out.store =
                hc.rows \ RowsAllowedBy(get_limits(hc.meta.authorization[1], "DELETE",
                                                   hc.req.user), hc.rows)
        /\ hc.state = "responded"
        /\ hc.response.status = NO_CONTENT


(***************************************************************************)
(* The hydrate cycle (resources.py): full_hydrate, hydrate_m2m and the     *)
(* saves of obj_create and obj_update, on a resource with a plain field, a *)
(* foreign key and a many-to-many field.                                   *)
(***************************************************************************)
FieldNames == {"title", "author", "tags"}

\* The options of an ApiField that the hydrate cycle reads.
ApiField(attribute, readonly, null, blank, is_related, is_m2m) ==
    [attribute |-> attribute, readonly |-> readonly, null |-> null, blank |-> blank,
     is_related |-> is_related, is_m2m |-> is_m2m]

\* self.fields of the resource, for the declarations that make a field
\* read-only, nullable or blank.
ResourceFields ==
    {[title |-> ApiField(TRUE, r.title, r.nullable, FALSE, FALSE, FALSE),
      author |-> ApiField(TRUE, FALSE, r.nullable, r.blank, TRUE, FALSE),
      tags |-> ApiField(TRUE, r.tags, r.nullable, FALSE, TRUE, TRUE)] :
        r \in [title : BOOLEAN, tags : BOOLEAN, nullable : BOOLEAN, blank : BOOLEAN]}

\* The domain object of a bundle: None, or an instance with the value written
\* to each attribute ("unset" when none was), whether it has been saved and
\* whether its many-to-many relation has been stored.
Instance(exists, attrs, saved, m2m) ==
    [exists |-> exists, attrs |-> attrs, saved |-> saved, m2m |-> m2m]
Unwritten == [f \in FieldNames |-> "unset"]
NoInstance == Instance(FALSE, Unwritten, FALSE, FALSE)
\* self._meta.object_class()
object_class == Instance(TRUE, Unwritten, FALSE, FALSE)
\* An instance obj_get found in the store.
StoredInstance == Instance(TRUE, [f \in FieldNames |-> "value"], TRUE, TRUE)

\* A bundle: its object, the fields the data has a value for, and whether the
\* data of the many-to-many fields has been hydrated.
HyBundle(obj, data, data_m2m) == [obj |-> obj, data |-> data, data_m2m |-> data_m2m]

\* Resource.build_bundle: a bundle without object gets an empty one.
build_bundle(obj, data) ==
    HyBundle(IF ~obj.exists THEN object_class ELSE obj, data, FALSE)

\* field_object.hydrate(bundle, request): the value, or None.
HydratedValue(data, field_name) == IF field_name \in data THEN "value" ELSE "None"

HydrateField_mutant_skip_null(field_object, old, value) ==
    IF field_object.readonly THEN old
    ELSE IF ~field_object.attribute THEN old
    ELSE IF value = "None" THEN old
    ELSE IF ~field_object.is_related THEN value
    ELSE IF ~field_object.is_m2m THEN value
    ELSE old

HydrateField_mutant_readonly(field_object, old, value) ==
    IF ~field_object.attribute THEN old
    ELSE IF ~(value # "None" \/ field_object.null) THEN old
    ELSE IF ~field_object.is_related THEN value
    ELSE IF ~field_object.is_m2m /\ (value # "None" \/ ~field_object.blank) THEN value
    ELSE old

\* What full_hydrate leaves in one attribute of the object.
HydrateField(field_object, old, value) ==
    IF field_object.readonly THEN old
    ELSE IF ~field_object.attribute THEN old
    ELSE IF ~(value # "None" \/ field_object.null) THEN old
    ELSE IF ~field_object.is_related THEN value
    ELSE IF ~field_object.is_m2m
         THEN IF value # "None" THEN value
              ELSE IF field_object.blank THEN old
              ELSE IF field_object.null THEN value
              ELSE old
    ELSE old

full_hydrate_mutant_m2m(fields, bundle) ==
    [bundle EXCEPT !.obj =
        Instance(TRUE,
                 [f \in FieldNames |->
                    IF fields[f].is_m2m THEN HydratedValue(bundle.data, f)
                    ELSE HydrateField(fields[f], bundle.obj.attrs[f],
                                      HydratedValue(bundle.data, f))],
                 bundle.obj.saved, bundle.obj.m2m)]

\* Resource.full_hydrate
full_hydrate(fields, bundle) ==
    [bundle EXCEPT !.obj =
        Instance(TRUE,
                 [f \in FieldNames |->
                    HydrateField(fields[f],
                                 IF bundle.obj.exists THEN bundle.obj.attrs[f] ELSE "unset",
                                 HydratedValue(bundle.data, f))],
                 bundle.obj.exists /\ bundle.obj.saved,
                 bundle.obj.exists /\ bundle.obj.m2m)]

\* field_object.dehydrate(bundle, request): the attribute read off the object.
FieldDehydrate(field_object, obj, field_name) ==
    IF field_object.attribute THEN obj.attrs[field_name] ELSE "None"

\* Resource.full_dehydrate: bundle.data[field_name] for every field; the data
\* keeps the names of the fields whose value is not None.
full_dehydrate(fields, bundle) ==
    [bundle EXCEPT !.data =
        {f \in FieldNames : FieldDehydrate(fields[f], bundle.obj, f) # "None"}]

HydrationError == Exc("HydrationError", INTERNAL_SERVER_ERROR)

\* Resource.hydrate_m2m: the bundle with its many-to-many data hydrated, or
\* the exception.
hydrate_m2m(fields, bundle) ==
    IF ~bundle.obj.exists THEN [bundle |-> bundle, exc |-> HydrationError]
    ELSE [bundle |-> [bundle EXCEPT !.data_m2m =
                        \E f \in FieldNames : fields[f].is_m2m /\ fields[f].attribute],
          exc |-> NoExc]

\* ModelResource.save_m2m: the relation stored through the related manager.
save_m2m(fields, bundle) ==
    IF \E f \in FieldNames :
            fields[f].is_m2m /\ fields[f].attribute /\ ~fields[f].readonly
    THEN [bundle EXCEPT !.obj.m2m = TRUE, !.obj.attrs["tags"] = HydratedValue(bundle.data, "tags")]
    ELSE bundle

\* The operations started on a bundle: hydrate_m2m alone on a bundle from
\* build_bundle or on a bundle made without object, obj_create, obj_update.
\* and a round trip of a domain object through full_dehydrate and
\* full_hydrate.
HydrateOps == {"hydrate_m2m", "obj_create", "obj_update", "round_trip"}

\* A domain object as it comes from the store: every attribute holds a value
\* or None.
DomainObject(valued) ==
    Instance(TRUE, [f \in FieldNames |-> IF f \in valued THEN "value" ELSE "None"], TRUE, TRUE)

InitHydrate ==
    /\ \E op \in HydrateOps, fields \in ResourceFields, data \in SUBSET FieldNames,
          built \in BOOLEAN, saves \in BOOLEAN, found \in BOOLEAN :
        /\ op # "hydrate_m2m" => built
        /\ op # "obj_update" => found
        /\ op = "round_trip" => saves
        /\ hy = [op |-> op, pc |-> "start", fields |-> fields, saves |-> saves,
                 found |-> found, built |-> built,
                 original |-> IF op = "round_trip" THEN DomainObject(data) ELSE NoInstance,
                 bundle |-> IF op = "round_trip" THEN build_bundle(DomainObject(data), {})
                            ELSE IF built THEN build_bundle(NoInstance, data)
                            ELSE HyBundle(NoInstance, data, FALSE),
                 log |-> <<>>, exc |-> NoExc]
    /\ settings = CHOOSE cfg \in Settings : ~cfg.DEBUG
    /\ meta = ResourceOptions(CHOOSE o \in MetaOverrides : TRUE)
    /\ store = {}
    /\ pc = "idle"
    /\ request = NoRequest
    /\ auth_result = NoAuthResult
    /\ passed = <<>>
    /\ raised = NoExc
    /\ response = NoResp
    /\ accessed = 0
    /\ az = NoCall
    /\ lim = NoCall
    /\ flt = NoCall
    /\ hc = NoCall
    /\ ds = NoCall
    /\ ob = NoCall
    /\ hd = NoCall
    /\ ch = NoCall
    /\ cc = NoCall
    /\ pg = NoCall
    /\ rel = NoCall

\* hydrate_m2m called on the bundle as it is.
HydrateM2MAlone ==
    /\ hy.op = "hydrate_m2m"
    /\ hy.pc = "start"
    /\ \E out \in {hydrate_m2m(hy.fields, hy.bundle)} :
        hy' = [hy EXCEPT !.pc = IF out.exc # NoExc THEN "raised" ELSE "done",
                         !.bundle = out.bundle,
                         !.exc = out.exc,
                         !.log = Append(hy.log, "hydrate_m2m")]
    /\ UNCHANGED <<dispatch_vars, az, lim, flt, hc, ds, ob, hd, ch, cc, pg, rel>>

\* obj_create: bundle.obj = self._meta.object_class(); full_hydrate.
ObjCreateHydrate ==
    /\ hy.op = "obj_create"
    /\ hy.pc = "start"
    /\ hy' = [hy EXCEPT !.pc = "hydrated",
                        !.bundle = full_hydrate(hy.fields, [hy.bundle EXCEPT !.obj = object_class]),
                        !.log = Append(hy.log, "full_hydrate")]
    /\ UNCHANGED <<dispatch_vars, az, lim, flt, hc, ds, ob, hd, ch, cc, pg, rel>>

\* obj_update: the hydration before the lookup, obj_get, is_authorized and
\* full_hydrate on the object found.
ObjUpdateHydrate ==
    /\ hy.op = "obj_update"
    /\ hy.pc = "start"
    /\ IF ~hy.found
       THEN hy' = [hy EXCEPT !.pc = "raised",
                             !.bundle = full_hydrate(hy.fields, [hy.bundle EXCEPT !.obj = object_class]),
                             !.exc = Exc("NotFound", NOT_FOUND),
                             !.log = Append(hy.log, "full_hydrate")]
       ELSE hy' = [hy EXCEPT !.pc = "hydrated",
                             !.bundle = full_hydrate(hy.fields, [hy.bundle EXCEPT !.obj = StoredInstance]),
                             !.log = hy.log \o <<"full_hydrate", "full_hydrate">>]
    /\ UNCHANGED <<dispatch_vars, az, lim, flt, hc, ds, ob, hd, ch, cc, pg, rel>>

\* self.save_related(bundle)
SaveRelated ==
    /\ hy.pc = "hydrated"
    /\ hy' = [hy EXCEPT !.pc = "related_saved", !.log = Append(hy.log, "save_related")]
    /\ UNCHANGED <<dispatch_vars, az, lim, flt, hc, ds, ob, hd, ch, cc, pg, rel>>

\* bundle.obj.save()
SaveObject ==
    /\ hy.pc = "related_saved"
    /\ IF hy.saves
       THEN hy' = [hy EXCEPT !.pc = "saved", !.bundle.obj.saved = TRUE,
                             !.log = Append(hy.log, "save")]
       ELSE hy' = [hy EXCEPT !.pc = "raised", !.exc = DatabaseError,
                             !.log = Append(hy.log, "save failed")]
    /\ UNCHANGED <<dispatch_vars, az, lim, flt, hc, ds, ob, hd, ch, cc, pg, rel>>

\* m2m_bundle = self.hydrate_m2m(bundle, request)
HydrateM2M ==
    /\ hy.pc = "saved"
    /\ \E out \in {hydrate_m2m(hy.fields, hy.bundle)} :
        hy' = [hy EXCEPT !.pc = IF out.exc # NoExc THEN "raised" ELSE "m2m_hydrated",
                         !.bundle = out.bundle,
                         !.exc = out.exc,
                         !.log = Append(hy.log, "hydrate_m2m")]
    /\ UNCHANGED <<dispatch_vars, az, lim, flt, hc, ds, ob, hd, ch, cc, pg, rel>>

\* self.save_m2m(m2m_bundle); return bundle
SaveM2M ==
    /\ hy.pc = "m2m_hydrated"
    /\ hy' = [hy EXCEPT !.pc = "done",
                        !.bundle = save_m2m(hy.fields, hy.bundle),
                        !.log = Append(hy.log, "save_m2m")]
    /\ UNCHANGED <<dispatch_vars, az, lim, flt, hc, ds, ob, hd, ch, cc, pg, rel>>

\* bundle = self.full_dehydrate(bundle, request) on the bundle of the object.
RoundTripDehydrate ==
    /\ hy.op = "round_trip"
    /\ hy.pc = "start"
    /\ hy' = [hy EXCEPT !.pc = "dehydrated",
                        !.bundle = full_dehydrate(hy.fields, hy.bundle),
                        !.log = Append(hy.log, "full_dehydrate")]
    /\ UNCHANGED <<dispatch_vars, az, lim, flt, hc, ds, ob, hd, ch, cc, pg, rel>>

\* full_hydrate on a bundle that carries the dehydrated data and no object.
RoundTripHydrate ==
    /\ hy.op = "round_trip"
    /\ hy.pc = "dehydrated"
    /\ hy' = [hy EXCEPT !.pc = "done",
                        !.bundle = full_hydrate(hy.fields,
                                                HyBundle(NoInstance, hy.bundle.data, FALSE)),
                        !.log = Append(hy.log, "full_hydrate")]
    /\ UNCHANGED <<dispatch_vars, az, lim, flt, hc, ds, ob, hd, ch, cc, pg, rel>>

NextHydrate ==
    \/ RoundTripDehydrate
    \/ RoundTripHydrate
    \/ HydrateM2MAlone
    \/ ObjCreateHydrate
    \/ ObjUpdateHydrate
    \/ SaveRelated
    \/ SaveObject
    \/ HydrateM2M
    \/ SaveM2M

SpecHydrate == InitHydrate /\ [][NextHydrate]_vars

\* C19: hydrate_m2m on a bundle that full_hydrate has not been run on ends
\* in HydrationError, also when the bundle comes from build_bundle.
C19_HydrateM2MBeforeFullHydrate ==
    (/\ hy.op = "hydrate_m2m"
     /\ hy.pc # "start"
     /\ "full_hydrate" \notin Range(hy.log)) =>
        hy.pc = "raised" /\ hy.exc = HydrationError

\* C20: while only full_hydrate has worked on the object, no value is written
\* to its many-to-many attribute; in obj_create and obj_update every
\* hydrate_m2m and save_m2m step comes after the successful save of the
\* object, and none runs when the save failed.
C20_M2MAfterPrimarySave ==
    hy.op \in {"obj_create", "obj_update"} =>
        /\ "save_m2m" \notin Range(hy.log) =>
            hy.bundle.obj.attrs["tags"] =
                (IF hy.op = "obj_update" /\ hy.found /\ hy.pc # "start" THEN "value" ELSE "unset")
        /\ \A i \in 1..Len(hy.log) :
            hy.log[i] \in {"hydrate_m2m", "save_m2m"} =>
                \E j \in 1..(i - 1) : hy.log[j] = "save"
        /\ "save failed" \in Range(hy.log) =>
            /\ "hydrate_m2m" \notin Range(hy.log)
            /\ "save_m2m" \notin Range(hy.log)
            /\ ~hy.bundle.data_m2m
        /\ hy.pc = "done" => hy.log[Len(hy.log) - 2] = "save"

\* C20 witness: obj_create ran to its end with a many-to-many value in the
\* data, stored only by save_m2m after the save.
C20_Witness ==
    /\ hy.op = "obj_create"
    /\ hy.pc = "done"
    /\ "tags" \in hy.bundle.data
    /\ ~hy.fields["tags"].readonly
    /\ hy.bundle.obj.attrs["tags"] = "value"
    /\ hy.log = <<"full_hydrate", "save_related", "save", "hydrate_m2m", "save_m2m">>


(***************************************************************************)
(* Resource.deserialize (resources.py) over the parsers of parsers.py and  *)
(* the request data of request.py.                                         *)
(***************************************************************************)
\* parsers.py: the parser classes and the name bound to None when the
\* library of an optional parser is missing.
ParserClasses == {"JSONParser", "YAMLParser", "PlainTextParser", "FormParser", "PListParser"}
NoParser == "None"

\* The media_type attribute of a parser class.
media_type(parser_cls) ==
    CASE parser_cls = "JSONParser" -> "application/json"
      [] parser_cls = "YAMLParser" -> "application/yaml"
      [] parser_cls = "PlainTextParser" -> "text/plain"
      [] parser_cls = "FormParser" -> "application/x-www-form-urlencoded"
      [] parser_cls = "PListParser" -> "application/x-plist"

\* utils.mime.media_type_matches on media types without parameters.
media_type_matches(lhs, rhs) == lhs = rhs

\* BaseParser.can_handle_request and its override in FormParser.
can_handle_request(parser_cls, content_type) ==
    IF parser_cls = "FormParser"
    THEN \/ media_type_matches(media_type(parser_cls), content_type)
         \/ media_type_matches("multipart/form-data", content_type)
    ELSE media_type_matches(media_type(parser_cls), content_type)

\* parsers.py: DEFAULT_PARSERS as the module builds it, given which of the
\* optional libraries (yaml, lxml, biplist) are installed.
DEFAULT_PARSERS(yaml, lxml, biplist) ==
    <<"JSONParser">>
        \o (IF yaml THEN <<"YAMLParser">> ELSE <<>>)
        \o (IF lxml THEN <<IF yaml THEN "YAMLParser" ELSE NoParser>> ELSE <<>>)
        \o (IF biplist THEN <<"PListParser">> ELSE <<>>)
        \o <<"FormParser">>

\* The ``parsers`` option of a resource: the default, or a short tuple of
\* parser classes.
ParserLists ==
    {DEFAULT_PARSERS(yaml, lxml, biplist) : yaml \in BOOLEAN, lxml \in BOOLEAN, biplist \in BOOLEAN}
        \cup UNION {[1..n -> ParserClasses] : n \in 0..MaxParsers}

\* The content types of the requests and of the parts of a multipart body.
ContentTypes ==
    {"application/json", "application/yaml", "text/csv",
     "application/x-www-form-urlencoded", "multipart/form-data", "multipart/mixed"}

\* request.META has the key CONTENT_TYPE when the header was sent.
NoHeader == "<absent>"
MetaOf(key, content_type) == [key |-> key, value |-> content_type]

\* item.META.get(key, default)
MetaGet(item, key, default) ==
    IF \E h \in item.META : h.key = key
    THEN (CHOOSE h \in item.META : h.key = key).value
    ELSE default

\* The parts of a multipart body as MultiPartMixedParser.parse sorts them: a
\* named form field, a named file, a field without a name, and a part
\* without headers.
PartKinds == {"field", "file", "nameless", "raw"}

\* A request: its META and the parts of its body when it is multipart.
DsRequest(content_type, parts) ==
    [content_type |-> content_type,
     META |-> IF content_type = NoHeader THEN {} ELSE {MetaOf("CONTENT_TYPE", content_type)},
     parts |-> parts]

DsRequests ==
    {DsRequest(t, <<>>) : t \in ContentTypes \cup {NoHeader}}
        \cup {DsRequest(t, parts) :
                t \in {"multipart/form-data", "multipart/mixed"},
                parts \in UNION {[1..n -> PartKinds] : n \in 1..MaxBatch}}

\* MultiPartMixedParser.parse: the DATA of a multipart body. A part without
\* headers is stripped with data.trim(), and a nameless field is wrapped in
\* an HTTPAttachment whose constructor calls headers.itemitems(): neither
\* method exists, so either part ends the parse in AttributeError. Named
\* fields and files go to POST and FILES and leave DATA empty (None).
MultiPartParse(parts) ==
    IF \E i \in DOMAIN parts : parts[i] \in {"nameless", "raw"}
    THEN [raised |-> TRUE, data |-> <<>>]
    ELSE [raised |-> FALSE, data |-> <<>>]

\* TastypieHTTPRequest._load_data_and_files then as_tuple(request.DATA or
\* request): the request itself unless the multipart parse raised.
RequestData(req) ==
    IF MetaGet(req, "CONTENT_TYPE", "") \in {"multipart/form-data", "multipart/mixed"}
    THEN CHOOSE result \in
            {IF out.raised THEN out
             ELSE [raised |-> FALSE, data |-> IF out.data = <<>> THEN <<req>> ELSE out.data] :
                out \in {MultiPartParse(req.parts)}} : TRUE
    ELSE [raised |-> FALSE, data |-> <<req>>]

\* What deserialize hands back: the parser that decoded and the item it
\* decoded, or the exception raised.
Parsed(parser_cls, item) == [kind |-> "return", parser |-> parser_cls, item |-> item, exc |-> NoExc]
NotParsed(exc) == [kind |-> "raise", parser |-> NoParser, item |-> 0, exc |-> exc]

\* The inner loop of deserialize over the parsers, for item i of the data.
RECURSIVE ParseWith(_, _, _, _)
ParseWith(parsers, content_type, i, j) ==
    IF j > Len(parsers) THEN NotParsed(NoExc)
    ELSE IF parsers[j] = NoParser THEN NotParsed(Exc("TypeError", INTERNAL_SERVER_ERROR))
    ELSE IF can_handle_request(parsers[j], content_type) THEN Parsed(parsers[j], i)
    ELSE ParseWith(parsers, content_type, i, j + 1)

\* The outer loop of deserialize over the items of the data.
RECURSIVE DeserializeFrom(_, _, _)
DeserializeFrom(parsers, data, i) ==
    IF i > Len(data) THEN NotParsed(UnsupportedFormat)
    ELSE CHOOSE result \in
            {IF out.kind = "return" \/ out.exc # NoExc THEN out
             ELSE DeserializeFrom(parsers, data, i + 1) :
                out \in {ParseWith(parsers, MetaGet(data[i], "CONTENT_TYPE", "application/json"),
                                   i, 1)}} : TRUE

\* Resource.deserialize
deserialize(parsers, req) ==
    CHOOSE result \in
        {IF loaded.raised THEN NotParsed(Exc("AttributeError", INTERNAL_SERVER_ERROR))
         ELSE DeserializeFrom(parsers, loaded.data, 1) :
            loaded \in {RequestData(req)}} : TRUE

InitDeserialize ==
    /\ ds \in [state : {"called"}, parsers : ParserLists, req : DsRequests,
               out : {NotParsed(NoExc)}, response : {NoResp}]
    /\ settings = CHOOSE cfg \in Settings : ~cfg.DEBUG
    /\ meta = ResourceOptions(CHOOSE o \in MetaOverrides : TRUE)
    /\ store = {}
    /\ pc = "idle"
    /\ request = NoRequest
    /\ auth_result = NoAuthResult
    /\ passed = <<>>
    /\ raised = NoExc
    /\ response = NoResp
    /\ accessed = 0
    /\ az = NoCall
    /\ lim = NoCall
    /\ flt = NoCall
    /\ hc = NoCall
    /\ hy = NoCall
    /\ ob = NoCall
    /\ hd = NoCall
    /\ ch = NoCall
    /\ cc = NoCall
    /\ pg = NoCall
    /\ rel = NoCall

\* A handler calls deserialized = self.deserialize(request).
Deserialize ==
    /\ ds.state = "called"
    /\ \E out \in {deserialize(ds.parsers, ds.req)} :
        ds' = [ds EXCEPT !.state = IF out.kind = "raise" THEN "raised" ELSE "parsed",
                         !.out = out]
    /\ UNCHANGED <<dispatch_vars, az, lim, flt, hc, hy, ob, hd, ch, cc, pg, rel>>

\* The wrapper translates the exception of deserialize.
DeserializeWrapView ==
    /\ ds.state = "raised"
    /\ \E out \in {wrap_view(settings, ds.out.exc)} :
        ds' = [ds EXCEPT !.state = out.pc, !.response = out.response]
    /\ UNCHANGED <<dispatch_vars, az, lim, flt, hc, hy, ob, hd, ch, cc, pg, rel>>

NextDeserialize ==
    \/ Deserialize
    \/ DeserializeWrapView

SpecDeserialize == InitDeserialize /\ [][NextDeserialize]_vars

\* The content type of the request: its CONTENT_TYPE, application/json when
\* the header is absent.
DsContentType ==
    IF ds.req.content_type = NoHeader THEN "application/json" ELSE ds.req.content_type

\* The positions of the configured parsers that claim the request's content
\* type.
DsClaiming ==
    {j \in 1..Len(ds.parsers) :
        ds.parsers[j] # NoParser /\ can_handle_request(ds.parsers[j], DsContentType)}

\* C30: the body is decoded by the first configured parser, in order, that
\* claims the request's content type; when no configured parser claims it,
\* the request ends in UnsupportedFormat and a 406 response.
C30_FirstClaimingParserDecodes ==
    ds.state \in {"parsed", "responded", "escaped"} =>
        IF DsClaiming # {}
        THEN /\ ds.state = "parsed"
             /\ ds.out.parser = ds.parsers[CHOOSE j \in DsClaiming : \A k \in DsClaiming : j <= k]
        ELSE /\ ds.state = "responded"
             /\ ds.out.exc = UnsupportedFormat
             /\ ds.response.status = NOT_ACCEPTABLE

\* The attributes of the object full_hydrate starts from: those of the stored
\* instance in an obj_update that found one, those of an empty instance
\* otherwise.
HyBase ==
    IF hy.op = "obj_update" /\ hy.found THEN StoredInstance.attrs ELSE object_class.attrs

\* C21: after full_hydrate every attribute of a read-only field is what it
\* was before, whatever the data carries for the field.
C21_ReadonlyFieldsUntouched ==
    (/\ hy.op \in {"obj_create", "obj_update"}
     /\ "full_hydrate" \in Range(hy.log)) =>
        \A f \in FieldNames :
            hy.fields[f].readonly => hy.bundle.obj.attrs[f] = HyBase[f]

\* C21 witness: full_hydrate ran in obj_create on data with a value for a
\* read-only field, and the attribute is still unset.
C21_Witness ==
    /\ hy.op = "obj_create"
    /\ hy.pc = "hydrated"
    /\ hy.fields["title"].readonly
    /\ "title" \in hy.bundle.data
    /\ hy.bundle.obj.attrs["title"] = "unset"


\* The fields the round-trip law is about: writable, not a relation, with an
\* attribute.
HyPlainWritable ==
    {f \in FieldNames :
        /\ hy.fields[f].attribute
        /\ ~hy.fields[f].readonly
        /\ ~hy.fields[f].is_related}

C23_AccessLoggedWhateverOutcome ==
    pc \in {"responded", "escaped"} =>
        (accessed = 1 <=> "throttle_check" \in Range(passed))


\* C24: an OPTIONS request ends with a 405 response whose Allow header lists
\* the allowed methods of the scope (list or detail) it was sent to.
C24_OptionsGets405WithAllow ==
    (pc \in {"responded", "escaped"} /\ request.method = "OPTIONS") =>
        /\ pc = "responded"
        /\ response.status = METHOD_NOT_ALLOWED
        /\ <<"Allow", {Upper(a) : a \in AllowedMethods(meta, request.type)}>>
                \in response.headers


\* C25: InvalidFilterError and InvalidSortError are both derived from
\* BadRequest, and a request that raised either of them ends with a 400
\* response.
C25_FilterAndSortErrorsAre400 ==
    (/\ flt.state \in {"responded", "escaped"}
     /\ flt.exc \in {"InvalidFilterError", "InvalidSortError"}) =>
        /\ IsSubclass(flt.exc, "BadRequest")
        /\ flt.state = "responded"
        /\ flt.response.status = BAD_REQUEST


\* C26: the body of the response built for an exception handle_error does
\* not recognise carries the canned message and no trace when DEBUG is off,
\* and the exception's own message and the trace only when DEBUG is on.
C26_CannedBodyUnlessDebug ==
    (pc = "responded" /\ raised # NoExc /\ raised.resp = NoResp /\ handle_error(raised) = None) =>
        /\ response.status = INTERNAL_SERVER_ERROR
        /\ IF settings.DEBUG
           THEN response.content.message = OwnMessage /\ response.content.trace
           ELSE response.content.message = CannedMessage /\ ~response.content.trace

\* C26 witness: with DEBUG off an exception that handle_error does not
\* recognise was answered with the canned 500 body.
C26_Witness ==
    /\ pc = "responded"
    /\ ~settings.DEBUG
    /\ raised.type = "UnboundLocalError"
    /\ response.status = INTERNAL_SERVER_ERROR
    /\ response.content = [code |-> INTERNAL_SERVER_ERROR, message |-> CannedMessage, trace |-> FALSE]


\* C27: outside full-debug mode, with DEBUG on as well as off, a request whose
\* exception handle_error turns into a 400-class ErrorResponse ends with a
\* response whose body carries that status as 'code' and the error's
\* message as 'message'.
C27_ClientErrorBodyHasMessage ==
    (/\ pc \in {"responded", "escaped"}
     /\ raised # NoExc
     /\ raised.resp = NoResp
     /\ ~(settings.DEBUG /\ settings.TASTYPIE_FULL_DEBUG)
     /\ handle_error(raised).status \in 400..499) =>
        /\ pc = "responded"
        /\ response.content.code = handle_error(raised).status
        /\ response.content.message = handle_error(raised).message

\* C28: outside full-debug mode no exception leaves the wrapper: every
\* request that entered it ends with a response.
C28_NoExceptionEscapes ==
    ~(settings.DEBUG /\ settings.TASTYPIE_FULL_DEBUG) => pc # "escaped"


\* C29: a get_multiple request that passed the checks of the view ends with
\* a 200 response in which every requested identifier is in exactly one of
\* 'objects' and 'not_found': in 'objects' only when the store has the row,
\* in 'not_found' whenever it has not.
C29_GetMultipleIsPartial ==
    (/\ hc.state \in {"responded", "escaped"}
     /\ HcIs("GET", "multiple")
     /\ hc.checks = <<"True", FALSE>>) =>
        /\ hc.state = "responded"
        /\ hc.response.status = OK
        /\ \A i \in 1..Len(hc.pk_list) :
            /\ (hc.pk_list[i] \in Range(hc.response.content.objects))
                    # (hc.pk_list[i] \in Range(hc.response.content.not_found))
            /\ hc.pk_list[i] \in Range(hc.response.content.objects) =>
                    hc.pk_list[i] \in Pks(hc.rows)
            /\ hc.pk_list[i] \notin Pks(hc.rows) =>
                    hc.pk_list[i] \in Range(hc.response.content.not_found)

(***************************************************************************)
(* Resource classes and instances: DeclarativeMetaclass.__new__,           *)
(* ResourceOptions.__new__, Resource.__init__ and the part of              *)
(* full_dehydrate that writes on field objects (resources.py).             *)
(***************************************************************************)
\* The parts of the state that belong to the dispatch cycle, at rest.
DispatchIdle ==
    /\ settings = CHOOSE cfg \in Settings : ~cfg.DEBUG
    /\ meta = ResourceOptions(CHOOSE o \in MetaOverrides : TRUE)
    /\ store = {}
    /\ pc = "idle"
    /\ request = NoRequest
    /\ auth_result = NoAuthResult
    /\ passed = <<>>
    /\ raised = NoExc
    /\ response = NoResp
    /\ accessed = 0

call_vars == <<az, lim, flt, hc, hy, ds>>

CallsIdle ==
    /\ az = NoCall
    /\ lim = NoCall
    /\ flt = NoCall
    /\ hc = NoCall
    /\ hy = NoCall
    /\ ds = NoCall

MaxInstances == 2

\* ResourceOptions.api_name = None, and the names an Api registers under.
NoApiName == "None"
ApiNames == {"v1", "v2"}

\* The resource classes of the model: ChildResource subclasses
\* ParentResource and declares nothing of its own.
ResourceClasses == <<"ParentResource", "ChildResource">>
BasesOf(cls) == IF cls = "ChildResource" THEN <<"ParentResource">> ELSE <<>>

\* A field object: what full_dehydrate reads and writes of it.
FieldObject(dehydrated_type) ==
    [dehydrated_type |-> dehydrated_type, api_name |-> NoApiName, resource_name |-> NoApiName]

\* The fields declared in the body of a class, in the order they are copied.
FieldOrder == <<"author", "title", "resource_uri">>
DeclaredFields(cls) ==
    IF cls = "ParentResource"
    THEN [author |-> FieldObject("related"), title |-> FieldObject("string")]
    ELSE <<>>

\* The keys of a dict, in FieldOrder.
RECURSIVE KeysFrom(_, _)
KeysFrom(dict, i) ==
    IF i > Len(FieldOrder) THEN <<>>
    ELSE IF FieldOrder[i] \in DOMAIN dict THEN <<FieldOrder[i]>> \o KeysFrom(dict, i + 1)
    ELSE KeysFrom(dict, i + 1)

\* d1.update(d2)
DictUpdate(d1, d2) ==
    [k \in DOMAIN d1 \cup DOMAIN d2 |-> IF k \in DOMAIN d2 THEN d2[k] ELSE d1[k]]

\* A shallow copy of a dict of field objects: the new dict refers to the same
\* objects.
copy_shallow(heap, fields) == [heap |-> heap, fields |-> fields]

\* copy.deepcopy of a dict of field objects: every object is copied into a
\* fresh object of the heap, which the new dict refers to.
deepcopy(heap, fields) ==
    CHOOSE result \in
        {[heap |-> heap \o [i \in 1..Len(keys) |-> heap[fields[keys[i]]]],
          fields |-> [k \in DOMAIN fields |->
                        Len(heap) + (CHOOSE i \in 1..Len(keys) : keys[i] = k)]] :
            keys \in {KeysFrom(fields, 1)}} : TRUE

\* Storing newly made objects in the heap, as a dict referring to them.
Allocate(heap, objects) ==
    CHOOSE result \in
        {[heap |-> heap \o [i \in 1..Len(keys) |-> objects[keys[i]]],
          fields |-> [k \in DOMAIN objects |->
                        Len(heap) + (CHOOSE i \in 1..Len(keys) : keys[i] = k)]] :
            keys \in {KeysFrom(objects, 1)}} : TRUE

\* The loop of DeclarativeMetaclass.__new__ over the parents:
\* attrs['base_fields'][field_name] = deepcopy(field_object).
RECURSIVE InheritFrom(_, _, _, _)
InheritFrom(state, parents, i, acc) ==
    IF i > Len(parents) THEN acc
    ELSE CHOOSE result \in
            {InheritFrom(state, parents, i + 1,
                         [heap |-> copied.heap, fields |-> DictUpdate(acc.fields, copied.fields)]) :
                copied \in {deepcopy(acc.heap, state.base_fields[parents[i]])}} : TRUE

\* ResourceOptions.__new__ and the auto-naming of DeclarativeMetaclass: a
\* fresh options object for the class.
ClassOptions(cls) ==
    [api_name |-> NoApiName,
     resource_name |-> IF cls = "ParentResource" THEN "parent" ELSE "child",
     include_resource_uri |-> TRUE]

\* DeclarativeMetaclass.__new__
DeclarativeMetaclass(state, cls) ==
    CHOOSE result \in
        {[state EXCEPT !.heap = with_uri.heap,
                       !.base_fields = [c \in DOMAIN state.base_fields \cup {cls} |->
                                           IF c = cls THEN with_uri.fields
                                           ELSE state.base_fields[c]],
                       !._meta = [c \in DOMAIN state._meta \cup {cls} |->
                                           IF c = cls THEN ClassOptions(cls) ELSE state._meta[c]]] :
            with_uri \in
                {IF ClassOptions(cls).include_resource_uri /\ "resource_uri" \notin DOMAIN own.fields
                 THEN CHOOSE r \in
                        {[heap |-> uri.heap, fields |-> DictUpdate(own.fields, uri.fields)] :
                            uri \in {Allocate(own.heap, [resource_uri |-> FieldObject("string")])}} : TRUE
                 ELSE own :
                    own \in
                        {[heap |-> declared.heap,
                          fields |-> DictUpdate(inherited.fields, declared.fields)] :
                            inherited \in {InheritFrom(state, BasesOf(cls), 1,
                                                       [heap |-> state.heap, fields |-> <<>>])},
                            declared \in {Allocate(InheritFrom(state, BasesOf(cls), 1,
                                                       [heap |-> state.heap, fields |-> <<>>]).heap,
                                                   DeclaredFields(cls))}}}} : TRUE

\* The process after the module defining both classes has been imported.
ClassesDefined ==
    DeclarativeMetaclass(
        DeclarativeMetaclass([heap |-> <<>>, base_fields |-> <<>>, _meta |-> <<>>, instances |-> <<>>],
                             ResourceClasses[1]),
        ResourceClasses[2])

\* Resource.__init__ with a shallow copy of base_fields.
init_mutant_shallow(state, cls, api_name) ==
    CHOOSE result \in
        {[state EXCEPT !.heap = copied.heap,
                       !.instances = Append(@, [cls |-> cls, fields |-> copied.fields]),
                       !._meta[cls].api_name = IF api_name # NoApiName THEN api_name ELSE @] :
            copied \in {copy_shallow(state.heap, state.base_fields[cls])}} : TRUE

\* Resource.__init__
init(state, cls, api_name) ==
    CHOOSE result \in
        {[state EXCEPT !.heap = copied.heap,
                       !.instances = Append(@, [cls |-> cls, fields |-> copied.fields]),
                       !._meta[cls].api_name = IF api_name # NoApiName THEN api_name ELSE @] :
            copied \in {deepcopy(state.heap, state.base_fields[cls])}} : TRUE

\* The first lines of the loop of full_dehydrate: the related fields of the
\* instance are given the api_name and resource_name of its options.
full_dehydrate_fields(state, i) ==
    LET self == state.instances[i]
        related == {self.fields[k] : k \in {n \in DOMAIN self.fields :
                        state.heap[self.fields[n]].dehydrated_type = "related"}}
    IN [state EXCEPT !.heap = [id \in DOMAIN state.heap |->
            IF id \in related
            THEN [state.heap[id] EXCEPT !.api_name = state._meta[self.cls].api_name,
                                        !.resource_name = state._meta[self.cls].resource_name]
            ELSE state.heap[id]]]

InitClasses ==
    /\ ob = [ClassesDefined EXCEPT !.instances = <<>>]
    /\ DispatchIdle
    /\ CallsIdle
    /\ hd = NoCall
    /\ ch = NoCall
    /\ cc = NoCall
    /\ pg = NoCall
    /\ rel = NoCall

\* An Api, or the application, constructs a resource.
Construct ==
    /\ Len(ob.instances) < MaxInstances
    /\ \E cls \in Range(ResourceClasses), api_name \in ApiNames \cup {NoApiName} :
        ob' = init(ob, cls, api_name)
    /\ UNCHANGED <<dispatch_vars, call_vars, hd, ch, cc, pg, rel>>

\* A handler of one of the resources dehydrates a bundle.
FullDehydrate ==
    /\ \E i \in DOMAIN ob.instances : ob' = full_dehydrate_fields(ob, i)
    /\ UNCHANGED <<dispatch_vars, call_vars, hd, ch, cc, pg, rel>>

NextClasses ==
    \/ Construct
    \/ FullDehydrate

SpecClasses == InitClasses /\ [][NextClasses]_vars

\* The options an instance sees: self._meta.
OptionsSeenBy(state, i) == state._meta[state.instances[i].cls]

\* The field objects an owner holds, by name: self.fields of an instance.
FieldsSeenBy(state, i) ==
    [k \in DOMAIN state.instances[i].fields |-> state.heap[state.instances[i].fields[k]]]

\* cls.base_fields of a class.
BaseFieldsOf(state, cls) ==
    [k \in DOMAIN state.base_fields[cls] |-> state.heap[state.base_fields[cls][k]]]

\* C31: the resolved options of a class are immutable after class
\* definition: no step, the construction of an instance with an api_name
\* included, changes the options an existing instance sees.
C31_OptionsImmutable ==
    [][\A i \in DOMAIN ob.instances : OptionsSeenBy(ob', i) = OptionsSeenBy(ob, i)]_vars

\* C32: field declarations are deep-copied per instance and per subclass: a
\* step that changes the field objects of one instance changes neither the
\* fields of another instance nor the base_fields of any class.
C32_FieldsNeverShared ==
    [][\A i \in DOMAIN ob.instances :
          FieldsSeenBy(ob', i) # FieldsSeenBy(ob, i) =>
            /\ \A j \in DOMAIN ob.instances \ {i} : FieldsSeenBy(ob', j) = FieldsSeenBy(ob, j)
            /\ \A cls \in Range(ResourceClasses) : BaseFieldsOf(ob', cls) = BaseFieldsOf(ob, cls)]_vars

\* Two instances of one class, one of which has dehydrated under an api_name
\* while the fields of the other and of the class are as declared.
C32_Witness ==
    \E i, j \in DOMAIN ob.instances :
        /\ i # j
        /\ ob.instances[i].cls = ob.instances[j].cls
        /\ FieldsSeenBy(ob, i).author.api_name \in ApiNames
        /\ FieldsSeenBy(ob, j).author.api_name = NoApiName
        /\ BaseFieldsOf(ob, ob.instances[i].cls).author.api_name = NoApiName

(***************************************************************************)
(* HttpHeaders and Response (response.py): the header mapping.             *)
(***************************************************************************)
\* Header names in the cases a caller may write them, and header values.
HeaderNames == {"Allow", "allow", "ALLOW", "Location", "location"}
HeaderValues == {"GET", "/api/v1/notes/1/"}

\* header.lower()
lower(header) ==
    CASE header \in {"Allow", "allow", "ALLOW"} -> "allow"
      [] header \in {"Location", "location"} -> "location"
      [] OTHER -> header

\* value[1] of a string: its second character.
SecondChar(value) ==
    CASE value = "GET" -> "E"
      [] value = "/api/v1/notes/1/" -> "a"

\* The values _headers holds: the tuple (header, value) that __setitem__
\* stores, or whatever value the dict handed to the constructor held.
HeaderPair(header, value) == [kind |-> "pair", header |-> header, value |-> value]
HeaderRaw(value) == [kind |-> "raw", header |-> "none", value |-> value]

\* entry[1]
Index1(entry) == IF entry.kind = "pair" THEN entry.value ELSE SecondChar(entry.value)

\* The headers= dicts handed to the constructor: none, or names to values.
HeaderDicts ==
    {<<>>} \cup {[n \in names |-> v] : names \in {{"Allow"}, {"location"}, {"Allow", "location"}},
                                     v \in HeaderValues}

\* HttpHeaders.__init__: self._headers = headers or {}
HttpHeaders(headers) == [n \in DOMAIN headers |-> HeaderRaw(headers[n])]

\* HttpHeaders.__setitem__
setitem(_headers, header, value) ==
    [k \in DOMAIN _headers \cup {lower(header)} |->
        IF k = lower(header) THEN HeaderPair(header, value) ELSE _headers[k]]

\* HttpHeaders.__delitem__
delitem(_headers, header) ==
    [k \in DOMAIN _headers \ {lower(header)} |-> _headers[k]]

\* HttpHeaders.__getitem__
KeyError == "<KeyError>"
getitem(_headers, header) ==
    IF lower(header) \in DOMAIN _headers THEN Index1(_headers[lower(header)]) ELSE KeyError

\* HttpHeaders.has_header
has_header(_headers, header) == lower(header) \in DOMAIN _headers

\* HttpHeaders.items
items(_headers) ==
    {IF _headers[k].kind = "pair" THEN <<_headers[k].header, _headers[k].value>>
     ELSE <<_headers[k].value>> : k \in DOMAIN _headers}

\* What the mapping is expected to hold: for each header, by lower-case
\* name, the case and the value it was last supplied with.
Expect(expected, header, value) ==
    [k \in DOMAIN expected \cup {lower(header)} |->
        IF k = lower(header) THEN [header |-> header, value |-> value] ELSE expected[k]]
Forget(expected, header) ==
    [k \in DOMAIN expected \ {lower(header)} |-> expected[k]]
RECURSIVE ExpectAll(_, _)
ExpectAll(expected, headers) ==
    IF DOMAIN headers = {} THEN expected
    ELSE LET n == CHOOSE n \in DOMAIN headers : TRUE
         IN ExpectAll(Expect(expected, n, headers[n]),
                      [m \in DOMAIN headers \ {n} |-> headers[m]])

InitHeaders ==
    /\ hd = [state |-> "new", _headers |-> <<>>, expected |-> <<>>]
    /\ DispatchIdle
    /\ CallsIdle
    /\ ob = NoCall
    /\ ch = NoCall
    /\ cc = NoCall
    /\ pg = NoCall
    /\ rel = NoCall

\* Response(content, status, headers)
NewResponse ==
    /\ hd.state = "new"
    /\ \E headers \in HeaderDicts :
        hd' = [state |-> "built", _headers |-> HttpHeaders(headers),
               expected |-> ExpectAll(<<>>, headers)]
    /\ UNCHANGED <<dispatch_vars, call_vars, ob, ch, cc, pg, rel>>

\* response[header] = value
SetHeader ==
    /\ hd.state = "built"
    /\ \E header \in HeaderNames, value \in HeaderValues :
        hd' = [hd EXCEPT !._headers = setitem(@, header, value),
                         !.expected = Expect(@, header, value)]
    /\ UNCHANGED <<dispatch_vars, call_vars, ob, ch, cc, pg, rel>>

\* del response[header]
DelHeader ==
    /\ hd.state = "built"
    /\ \E header \in HeaderNames :
        hd' = [hd EXCEPT !._headers = delitem(@, header),
                         !.expected = Forget(@, header)]
    /\ UNCHANGED <<dispatch_vars, call_vars, ob, ch, cc, pg, rel>>

NextHeaders ==
    \/ NewResponse
    \/ SetHeader
    \/ DelHeader

SpecHeaders == InitHeaders /\ [][NextHeaders]_vars

\* C33: the header mapping of a Response is case-insensitive and keeps the
\* original case: a header supplied at construction or set later is found,
\* under every case variant of its name, as one single entry holding the
\* value and the case it was last supplied with, and a deleted header is
\* found under no variant.
C33_HeadersCaseInsensitive ==
    hd.state = "built" =>
        \A name \in HeaderNames :
            IF lower(name) \in DOMAIN hd.expected
            THEN /\ has_header(hd._headers, name)
                 /\ getitem(hd._headers, name) = hd.expected[lower(name)].value
                 /\ <<hd.expected[lower(name)].header, hd.expected[lower(name)].value>>
                        \in items(hd._headers)
                 /\ Cardinality({k \in DOMAIN hd._headers : lower(k) = lower(name)}) = 1
            ELSE ~has_header(hd._headers, name)

(***************************************************************************)
(* cached_obj_get and generate_cache_key (resources.py) against the cache  *)
(* collaborator, for get_detail requests of two callers.                   *)
(***************************************************************************)
\* The callers, and the policy of the resource: a user-written policy whose
\* get_limits admits every row to the staff member alice and none to
\* anybody else.
CacheCallers == {"alice", "bob"}
StaffOnly(user) == <<Custom("None", IF user = "alice" THEN LTrue ELSE LFalse)>>

\* The get_detail request of a caller for a primary key.
DetailRequest(user, pk) ==
    [method |-> "GET", type |-> "detail", kwargs |-> ByPk(pk), user |-> user]

\* generate_cache_key: api_name, resource_name, the args and the kwargs.
generate_cache_key(api_name, resource_name, args, kwargs) ==
    <<api_name, resource_name, args, kwargs>>

\* The cache collaborator: NoCache never holds anything, SimpleCache holds
\* what was set.
CacheKinds == {"NoCache", "SimpleCache"}
NoBundle == Raises("None")
cache_get(cache, key) ==
    IF cache.kind = "SimpleCache" /\ key \in DOMAIN cache.data THEN cache.data[key] ELSE NoBundle
cache_set(cache, key, value) ==
    IF cache.kind = "SimpleCache"
    THEN [cache EXCEPT !.data = [k \in DOMAIN cache.data \cup {key} |->
                                    IF k = key THEN value ELSE cache.data[k]]]
    ELSE cache

\* cached_obj_get, as the outcome of the call on a cache: what the caller is
\* handed and the cache afterwards.
cached_obj_get(authorizers, req, rows, cache) ==
    CHOOSE result \in
        {IF bundle # NoBundle THEN [bundle |-> bundle, cache |-> cache]
         ELSE CHOOSE r \in
                {IF got.kind = "raise" THEN [bundle |-> got, cache |-> cache]
                 ELSE [bundle |-> got,
                       cache |-> cache_set(cache,
                                    generate_cache_key(NoApiName, "notes", "detail", req.kwargs),
                                    got)] :
                    got \in {obj_get(authorizers, req, rows, req.kwargs)}} : TRUE :
            bundle \in {cache_get(cache,
                            generate_cache_key(NoApiName, "notes", "detail", req.kwargs))}} : TRUE

InitCache ==
    /\ ch \in [cache : {[kind |-> k, data |-> <<>>] : k \in CacheKinds},
               rows : Tables,
               req : {NoRequest},
               bundle : {NoBundle}]
    /\ DispatchIdle
    /\ CallsIdle
    /\ ob = NoCall
    /\ hd = NoCall
    /\ cc = NoCall
    /\ pg = NoCall
    /\ rel = NoCall

\* get_detail: obj = self.cached_obj_get(request=request, **kwargs)
CachedObjGet ==
    /\ \E user \in CacheCallers, pk \in 1..MaxPk :
        \E out \in {cached_obj_get(StaffOnly(user), DetailRequest(user, pk), ch.rows, ch.cache)} :
            ch' = [ch EXCEPT !.cache = out.cache,
                             !.req = DetailRequest(user, pk),
                             !.bundle = out.bundle]
    /\ UNCHANGED <<dispatch_vars, call_vars, ob, hd, cc, pg, rel>>

NextCache ==
    \/ CachedObjGet

SpecCache == InitCache /\ [][NextCache]_vars

\* C34: cached_obj_get hands a caller an object only if obj_get for that
\* caller's request would return it, whatever requests of other callers came
\* before.
C34_CacheNeverWidensAccess ==
    (ch.req # NoRequest /\ ch.bundle.kind = "object") =>
        obj_get(StaffOnly(ch.req.user), ch.req, ch.rows, ch.req.kwargs) = ch.bundle

(***************************************************************************)
(* Two resources sharing one DjangoAuthorization instance, each handling   *)
(* requests on a thread of its own: Authorization.__get__ and              *)
(* DjangoAuthorization.is_authorized (authorization.py) under              *)
(* Resource.is_authorized (resources.py).                                  *)
(***************************************************************************)
Threads == {1, 2}

\* The resources that were given the same policy instance, and the
\* object_class of the options of each.
SharingResources == {"NoteResource", "UserResource"}
ObjectClassOf(resource) == IF resource = "NoteResource" THEN "Note" ELSE "User"

\* 'PUT': '%(app)s.change_%(object)s' for the class the policy looks at.
permission_code(klass) == <<"change", klass>>

NoThread == [resource |-> "none", pc |-> "idle", checked |-> <<>>]

InitConcurrent ==
    /\ cc = [resource_meta |-> "none", threads |-> [t \in Threads |-> NoThread]]
    /\ DispatchIdle
    /\ CallsIdle
    /\ ob = NoCall
    /\ hd = NoCall
    /\ ch = NoCall
    /\ pg = NoCall
    /\ rel = NoCall

\* A PUT request for one of the resources arrives on a thread.
ThreadDispatch(t) ==
    /\ cc.threads[t].pc \in {"idle", "done"}
    /\ \E resource \in SharingResources :
        cc' = [cc EXCEPT !.threads[t] = [resource |-> resource, pc |-> "dispatched",
                                         checked |-> <<>>]]
    /\ UNCHANGED <<dispatch_vars, call_vars, ob, hd, ch, pg, rel>>

\* Resource.is_authorized: authorizers = as_tuple(self._meta.authorization).
\* Reading the attribute runs Authorization.__get__, which stores the
\* options of the reading resource on the policy instance.
ThreadGetAuthorization(t) ==
    /\ cc.threads[t].pc = "dispatched"
    /\ cc' = [cc EXCEPT !.resource_meta = cc.threads[t].resource,
                        !.threads[t].pc = "bound"]
    /\ UNCHANGED <<dispatch_vars, call_vars, ob, hd, ch, pg, rel>>

\* DjangoAuthorization.is_authorized: klass = self.resource_meta.object_class
\* and the permission code built from it.
ThreadIsAuthorized(t) ==
    /\ cc.threads[t].pc = "bound"
    /\ cc' = [cc EXCEPT !.threads[t].pc = "done",
                        !.threads[t].checked = permission_code(ObjectClassOf(cc.resource_meta))]
    /\ UNCHANGED <<dispatch_vars, call_vars, ob, hd, ch, pg, rel>>

NextConcurrent ==
    \/ \E t \in Threads : ThreadDispatch(t)
    \/ \E t \in Threads : ThreadGetAuthorization(t)
    \/ \E t \in Threads : ThreadIsAuthorized(t)

SpecConcurrent == InitConcurrent /\ [][NextConcurrent]_vars

MaxRows == 4
MaxLimit == 3

\* objects[start:stop] of a sequence.
Slice(objects, start, stop) ==
    IF start >= Len(objects) \/ stop <= start THEN <<>>
    ELSE SubSeq(objects, start + 1, IF stop < Len(objects) THEN stop ELSE Len(objects))

\* The options of request.GET the paginator reads: limit and offset, each
\* absent or a number.
Absent == 0 - 1
PageOptions == [limit : {Absent} \cup 0..MaxLimit, offset : {Absent} \cup 0..MaxRows + 1]

\* The limit and the offset the paginator works with: those of the options,
\* or the resource's limit and 0.
get_limit(options, limit) == IF options.limit = Absent THEN limit ELSE options.limit
get_offset(options) == IF options.offset = Absent THEN 0 ELSE options.offset

\* A navigation URI: the list URI with a limit and an offset, or None.
NoUri == [limit |-> Absent, offset |-> Absent]
Uri(limit, offset) == [limit |-> limit, offset |-> offset]

\* Paginator(request.GET, objects, limit=limit).page()
page(options, objects, limit) ==
    LET L == get_limit(options, limit)
        O == get_offset(options)
        N == Len(objects)
    IN  [objects |-> IF L = 0 THEN Slice(objects, O, N) ELSE Slice(objects, O, O + L),
         meta |-> [limit |-> L, offset |-> O, total_count |-> N,
                   previous |-> IF L = 0 \/ O <= 0 THEN NoUri
                                ELSE Uri(L, IF O - L < 0 THEN 0 ELSE O - L),
                   next |-> IF L = 0 \/ O + L >= N THEN NoUri ELSE Uri(L, O + L)]]

\* get_list handing back every sorted object without the paginator.
get_list_page_mutant_unpaged(options, sorted_objects, limit) ==
    [page(options, sorted_objects, limit) EXCEPT !.objects = sorted_objects]

\* get_list after the sorting: the page of the paginator, each of whose
\* objects is dehydrated into a bundle.
get_list_page(options, sorted_objects, limit) ==
    CHOOSE result \in
        {[to_be_serialized EXCEPT !.objects = [i \in DOMAIN to_be_serialized.objects |->
                                                 to_be_serialized.objects[i]]] :
            to_be_serialized \in {page(options, sorted_objects, limit)}} : TRUE

NoPage == [objects |-> <<>>, meta |-> [limit |-> Absent, offset |-> Absent, total_count |-> Absent,
                                        previous |-> NoUri, next |-> NoUri]]

InitPaginate ==
    /\ pg \in [state : {"called"},
               options : PageOptions,
               objects : {[i \in 1..n |-> i] : n \in 0..MaxRows},
               limit : 1..MaxLimit,
               page : {NoPage}]
    /\ DispatchIdle
    /\ CallsIdle
    /\ ob = NoCall
    /\ hd = NoCall
    /\ ch = NoCall
    /\ cc = NoCall
    /\ rel = NoCall

\* get_list on the sorted objects.
GetList ==
    /\ pg.state = "called"
    /\ pg' = [pg EXCEPT !.state = "paged",
                        !.page = get_list_page(pg.options, pg.objects, pg.limit)]
    /\ UNCHANGED <<dispatch_vars, call_vars, ob, hd, ch, cc, rel>>

NextPaginate ==
    \/ GetList

SpecPaginate == InitPaginate /\ [][NextPaginate]_vars

RelatedHandlers == {"get", "put", "post"}

\* What dispatch_related hands back: the response returned or the exception
\* raised, and how many times the storage collaborator was asked for the
\* parent object.
RelatedOutcome(ret, exc, lookups) == [ret |-> ret, exc |-> exc, lookups |-> lookups]

\* Resource.dispatch for the request type related_detail, with the parent
\* object at hand.
dispatch_related_detail(m, req, result, should_be_throttled, lookups) ==
    CHOOSE out \in
        {IF checked.exc # NoExc THEN RelatedOutcome(NoResp, checked.exc, lookups)
         ELSE IF checked.value \notin RelatedHandlers
         THEN RelatedOutcome(NoResp, Exc("TastypieError", NOT_IMPLEMENTED), lookups)
         ELSE IF is_authenticated(result).exc # NoExc
         THEN RelatedOutcome(NoResp, is_authenticated(result).exc, lookups)
         ELSE IF throttle_check(should_be_throttled).exc # NoExc
         THEN RelatedOutcome(NoResp, throttle_check(should_be_throttled).exc, lookups)
         ELSE IF checked.value = "get" THEN RelatedOutcome(HttpResponse, NoExc, lookups)
         ELSE RelatedOutcome(HttpNoContent, NoExc, lookups) :
            checked \in {method_check(req.method, m.detail_allowed_methods)}} : TRUE

\* Resource.dispatch_related on a resource without cache: the parent object
\* is fetched, then the request is dispatched.
dispatch_related(m, req, rows, result, should_be_throttled) ==
    CHOOSE out \in
        {IF obj.kind = "raise" /\ obj.exc = "DoesNotExist"
         THEN RelatedOutcome(HttpNotFound, NoExc, 1)
         ELSE IF obj.kind = "raise" /\ obj.exc = "MultipleObjectsReturned"
         THEN RelatedOutcome(HttpMultipleChoices, NoExc, 1)
         ELSE IF obj.kind = "raise"
         THEN RelatedOutcome(NoResp, Exc(obj.exc, INTERNAL_SERVER_ERROR), 1)
         ELSE dispatch_related_detail(m, req, result, should_be_throttled, 1) :
            obj \in {obj_get(m.authorization, req, rows, req.kwargs)}} : TRUE

\* The response the client receives for the call: the one returned, or the
\* one wrap_view makes of the exception.
RelatedResponse(cfg, out) ==
    IF out.exc = NoExc THEN out.ret ELSE wrap_view(cfg, out.exc).response

RelatedMeta ==
    ResourceOptions([CHOOSE o \in MetaOverrides : o.allowed_methods = Unset
                        /\ o.list_allowed_methods = Unset
                     EXCEPT !.authorization = <<OpenAuthorization>>])

InitRelated ==
    /\ rel \in [state : {"called"},
                req : {[method |-> method, type |-> "related_detail", kwargs |-> ByPk(pk),
                        user |-> "alice"] : method \in HttpMethods \ {"PATCH"}, pk \in 1..MaxPk},
                auth_result : AuthResults,
                should_be_throttled : BOOLEAN,
                rows : Tables,
                out : {RelatedOutcome(NoResp, NoExc, 0)},
                response : {NoResp}]
    /\ DispatchIdle
    /\ CallsIdle
    /\ ob = NoCall
    /\ hd = NoCall
    /\ ch = NoCall
    /\ cc = NoCall
    /\ pg = NoCall

\* wrap_view('dispatch_related') for the request.
DispatchRelated ==
    /\ rel.state = "called"
    /\ \E out \in {dispatch_related(RelatedMeta, rel.req, rel.rows, rel.auth_result,
                                    rel.should_be_throttled)} :
        rel' = [rel EXCEPT !.state = "done", !.out = out,
                           !.response = RelatedResponse(settings, out)]
    /\ UNCHANGED <<dispatch_vars, call_vars, ob, hd, ch, cc, pg>>

NextRelated ==
    \/ DispatchRelated

SpecRelated == InitRelated /\ [][NextRelated]_vars

\* The request fails the method check, the authentication or the throttle
\* check.
RelatedRefused ==
    \/ method_check(rel.req.method, RelatedMeta.detail_allowed_methods).exc # NoExc
    \/ is_authenticated(rel.auth_result).exc # NoExc
    \/ throttle_check(rel.should_be_throttled).exc # NoExc

\* C37: on the nested related route a request that uses a disallowed method,
\* is unauthenticated or is throttled never reaches the storage
\* collaborator, and gets the response it would get if the parent object
\* did not exist.
C37_ChecksBeforeStorage ==
    (rel.state = "done" /\ RelatedRefused) =>
        /\ rel.out.lookups = 0
        /\ \A rows \in Tables :
            rel.response = RelatedResponse(settings,
                                dispatch_related(RelatedMeta, rel.req, rows, rel.auth_result,
                                                 rel.should_be_throttled))

\* The rows of the store the authorization limits admit to the put_list call
\* at hand: what obj_delete_list deletes.
PutListAdmitted ==
    apply_authorization_limits(hc.meta.authorization, hc.req.method, hc.req.user,
                               Filter(hc.rows, hc.req.kwargs)).objs

\* The put_list call at hand ended in the validation error of one of its
\* objects.
PutListFailedValidation ==
    /\ hc.state # "called"
    /\ hc.req.method = "PUT"
    /\ hc.req.type = "list"
    /\ hc.out.exc = ValidationFailed

\* C38: put_list deletes the existing collection before it validates any
\* submitted object, and rollback deletes only objects created in the call:
\* after a put_list that fails validation the store holds the rows it held
\* before, less those the authorization limits admitted.
C38_PutListDeletesBeforeValidating ==
    PutListFailedValidation => hc.out.store = hc.rows \ PutListAdmitted

\* A put_list whose second object fails validation, on a store that held rows
\* the limits admitted.
C38_Witness ==
    /\ PutListFailedValidation
    /\ PutListAdmitted # {}
    /\ Len(hc.body.objects) = 2
    /\ hc.body.objects[1].valid
    /\ hc.out.store # hc.rows

\* The terms apply_sorting works on: those of 'order_by', or those of
\* 'sort_by' when 'order_by' is absent.
SortTerms ==
    IF flt.options.order_by # <<>> THEN flt.options.order_by ELSE flt.options.sort_by

\* The term names a field the resource does not have, one that the ordering
\* whitelist does not list, or one without attribute.
SortRejected(term) ==
    \/ term.bits[1] \notin DOMAIN FieldsOf("ArticleResource")
    \/ term.bits[1] \notin flt.ordering
    \/ FieldsOf("ArticleResource")[term.bits[1]].attribute = NoAttribute

\* C39: apply_sorting raises InvalidSortError when any term names a field
\* that is unknown, not in the ordering whitelist or without attribute, and
\* then does not call order_by; with neither 'order_by' nor 'sort_by' in the
\* options it returns the object list unchanged; otherwise it calls order_by
\* with one argument per term.
C39_SortingRejectsOrOrders ==
    flt.state \in {"sorted", "sort_raised"} =>
        IF SortTerms = <<>>
        THEN flt.state = "sorted" /\ flt.order_by_args = NotOrdered
        ELSE IF \E i \in DOMAIN SortTerms : SortRejected(SortTerms[i])
        THEN /\ flt.state = "sort_raised"
             /\ flt.exc = "InvalidSortError"
             /\ ~flt.order_by_args.called
        ELSE /\ flt.state = "sorted"
             /\ flt.order_by_args.called
             /\ Len(flt.order_by_args.args) = Len(SortTerms)

\* A request of two terms, the first accepted and the second rejected, that
\* ended in InvalidSortError without order_by being called.
C39_Witness ==
    /\ flt.state = "sort_raised"
    /\ Len(SortTerms) = 2
    /\ ~SortRejected(SortTerms[1])
    /\ SortRejected(SortTerms[2])
    /\ ~flt.order_by_args.called

\* The fields whose hook hydrate_<field> one call of full_hydrate runs: the
\* loop skips read-only fields before it reaches the hook.
full_hydrate_hooks(fields) == {f \in FieldNames : ~fields[f].readonly}

\* The fields whose hook hydrate_<field> one call of hydrate_m2m runs: its
\* second loop, over the many-to-many fields.
hydrate_m2m_hooks(fields) == {f \in FieldNames : fields[f].is_m2m}

\* How many times the steps logged so far have run the hook of a field.
HookCalls(f) ==
    Cardinality({i \in DOMAIN hy.log :
                    \/ hy.log[i] = "full_hydrate" /\ f \in full_hydrate_hooks(hy.fields)
                    \/ hy.log[i] = "hydrate_m2m" /\ f \in hydrate_m2m_hooks(hy.fields)})

\* How many hydration passes (calls of full_hydrate) the bundle has gone
\* through.
HydrationPasses == Cardinality({i \in DOMAIN hy.log : hy.log[i] = "full_hydrate"})

\* C40: during one obj_create or obj_update the hook hydrate_<field> of a
\* writable field runs at most once per hydration pass of the bundle: the
\* hook of a many-to-many field that full_hydrate ran is not run again by
\* hydrate_m2m.
C40_HookOncePerPass ==
    hy.op \in {"obj_create", "obj_update"} =>
        \A f \in FieldNames :
            ~hy.fields[f].readonly => HookCalls(f) <= HydrationPasses

====
